---- MODULE Spec2Model ----
(***************************************************************************)
(* A model of the DataStore driver of chia-wallet-sdk:                     *)
(*   crates/chia-sdk-driver/src/primitives/datalayer/datastore.rs          *)
(*   crates/chia-sdk-types/src/condition/puzzles.rs                        *)
(*                                                                         *)
(* Hashes are modelled as tagged tuples (an injective, collision-free      *)
(* hash): the tag names what was hashed, the rest are the hashed parts.    *)
(* Byte strings that are not 32-byte hashes are <<"bytes", seq>>.          *)
(***************************************************************************)
EXTENDS Integers, Sequences, FiniteSets, TLC

VARIABLES
    datastore,      \* the DataStore the caller holds, or NoStore
    spent_with,     \* the inner spend cs was built from by datastore.spend, or NoStore
    cs,             \* the CoinSpend at hand, or NoStore
    pdp,            \* the parent_delegated_puzzles passed to the last from_spend
    res,            \* what the last from_spend returned, or NoStore
    dsargs,         \* the arguments build_datastore is called with, beside the memos
    memo_list,      \* the memos at hand and where they are from, or NoStore
    rebuilt,        \* what build_datastore returned for them, or NoStore
    cat,            \* the CAT the caller holds, or NoStore
    cat_with,       \* the lineage proof and inner spend cat was spent with, or NoStore
    cat_out,        \* what CAT::spend returned, or NoStore
    cat_cs,         \* a coin spend handed to CAT::from_parent_spend, or NoStore
    cat_res,        \* what CAT::from_parent_spend returned for it, or NoStore
    ctx_spends,     \* the coin spends a SpendContext holds, oldest first
    ctx_log,        \* history: the coin spends inserted since the last take, in call order
    ctx_taken,      \* what the last take returned, or NoStore
    nft_out,        \* the last mint: its arguments and what it returned, or NoStore
    fee_be,         \* an oracle fee, as the eight bytes of a u64, most significant first
    fee_memo        \* the memo written for it, or NoStore

store_vars == <<datastore, spent_with, cs, pdp, res>>

memo_vars == <<dsargs, memo_list, rebuilt>>

cat_vars == <<cat, cat_with, cat_out, cat_cs, cat_res>>

ctx_vars == <<ctx_spends, ctx_log, ctx_taken, nft_out>>

fee_vars == <<fee_be, fee_memo>>

vars == <<store_vars, memo_vars, cat_vars, ctx_vars, fee_vars>>

(***************************************************************************)
(* Bounds of the model.                                                    *)
(***************************************************************************)
\* the largest number of conditions a p2 solution's delegated puzzle quotes
MaxConds == 2

(***************************************************************************)
(* Condition opcodes and other program constants.                          *)
(***************************************************************************)
CREATE_COIN == 51
MELT_MAGIC_AMOUNT == -113
NEW_METADATA == -24
NEW_MERKLE_ROOT == -13
REMARK == 1
CREATE_PUZZLE_ANNOUNCEMENT == 62
\* the metadata updater reveal written by new_metadata_condition
DL_UPDATER_REVEAL == 11

(***************************************************************************)
(* Byte strings.                                                           *)
(***************************************************************************)
BytesOf(s) == <<"bytes", s>>

NilAtom == BytesOf(<<>>)

\* a memo that converts to Bytes32 (try_into::<[u8; 32]>): every hash is 32
\* bytes long, every <<"bytes", s>> of the model is shorter
IsBytes32(m) == m[1] # "bytes"

\* BigInt::to_signed_bytes_be of a non-negative integer: the magnitude big
\* endian, with a leading 0 when the top bit of the first byte is set
RECURSIVE Magnitude(_)
Magnitude(n) == IF n < 256 THEN <<n>> ELSE Append(Magnitude(n \div 256), n % 256)

\* the sign byte: a leading 0 when the top bit of the magnitude is set
SignedBytesOf(m) == IF m[1] >= 128 THEN <<0>> \o m ELSE m

ToSignedBytesBE(n) == SignedBytesOf(Magnitude(n))

\* the magnitude of a u64 given by its eight bytes: no leading zero bytes,
\* and the single byte 0 for zero
RECURSIVE MagnitudeOfU64(_)
MagnitudeOfU64(be) ==
    IF Len(be) > 1 /\ be[1] = 0 THEN MagnitudeOfU64(Tail(be)) ELSE be

\* BigInt::from_signed_bytes_be(..).to_u64(): None for a negative number
RECURSIVE Unsigned(_)
Unsigned(s) == IF s = <<>> THEN 0 ELSE Unsigned(SubSeq(s, 1, Len(s) - 1)) * 256 + s[Len(s)]

FromSignedBytesBE(s) ==
    IF s = <<>> THEN [some |-> TRUE, value |-> 0]
    ELSE IF s[1] >= 128 THEN [some |-> FALSE, value |-> 0]
    ELSE [some |-> TRUE, value |-> Unsigned(s)]

(***************************************************************************)
(* Hashes.                                                                 *)
(***************************************************************************)
SINGLETON_LAUNCHER_PUZZLE_HASH == <<"singleton_launcher">>

DL_METADATA_UPDATER_PUZZLE_HASH == <<"dl_metadata_updater">>

\* StandardArgs::curry_tree_hash(pk)
P2Hash(key) == <<"p2", key>>

WriterHash(inner) == <<"writer", inner>>

\* CatArgs::curry_tree_hash(asset_id, inner_puzzle_hash)
CatHash(asset_id, inner_puzzle_hash) == <<"cat", asset_id, inner_puzzle_hash>>

OracleHash(ph, fee) == <<"oracle", ph, fee>>

\* DelegationLayerArgs::curry_tree_hash(launcher_id, owner_puzzle_hash, merkle_root)
DelegationHash(launcher_id, owner_puzzle_hash, merkle_root) ==
    <<"delegation", launcher_id, owner_puzzle_hash, merkle_root>>

\* the curried NftStateLayerArgs tree hash
NftStateHash(metadata_hash, updater, inner) == <<"nft_state", metadata_hash, updater, inner>>

\* SingletonArgs::curry_tree_hash(launcher_id, inner)
SingletonHash(launcher_id, inner) == <<"singleton", launcher_id, inner>>

\* Coin::coin_id
CoinId(coin) == <<"coin", coin.parent_coin_info, coin.puzzle_hash, coin.amount>>

\* metadata.tree_hash()
MetadataHash(metadata) == <<"metadata", metadata.root_hash, metadata.label>>

RootHashOnly(root_hash) == [root_hash |-> root_hash, label |-> "none"]

(***************************************************************************)
(* Delegated puzzles and their Merkle tree.                                *)
(***************************************************************************)
Admin(h) == [kind |-> "Admin", hash |-> h, fee |-> 0]
Writer(h) == [kind |-> "Writer", hash |-> h, fee |-> 0]
Oracle(h, fee) == [kind |-> "Oracle", hash |-> h, fee |-> fee]

\* HintType::value()
HintByte(kind) == CASE kind = "Admin" -> BytesOf(<<0>>)
                    [] kind = "Writer" -> BytesOf(<<1>>)
                    [] kind = "Oracle" -> BytesOf(<<2>>)

\* the leaf a delegated puzzle contributes: the hash of the puzzle that is
\* revealed to the delegation layer
LeafHash(dp) == CASE dp.kind = "Admin" -> dp.hash
                  [] dp.kind = "Writer" -> WriterHash(dp.hash)
                  [] dp.kind = "Oracle" -> OracleHash(dp.hash, dp.fee)

Leaves(dps) == [i \in 1..Len(dps) |-> LeafHash(dps[i])]

MerkleRoot(dps) == <<"merkle_root", Leaves(dps)>>

\* MerkleTree::get_proof: None unless the hash is a leaf
GetProof(dps, leaf) ==
    IF \E i \in 1..Len(dps) : LeafHash(dps[i]) = leaf
    THEN [some |-> TRUE, index |-> CHOOSE i \in 1..Len(dps) : LeafHash(dps[i]) = leaf]
    ELSE [some |-> FALSE, index |-> 0]

(***************************************************************************)
(* Results.                                                                *)
(***************************************************************************)
NoStore == [present |-> FALSE]

Err(e) == [ok |-> FALSE, err |-> e]

(***************************************************************************)
(* DataStore::get_recreation_memos                                         *)
(***************************************************************************)
\* the while loop without its break: every leading zero byte goes
RECURSIVE StripFee_AllZeros(_)
StripFee_AllZeros(b) ==
    IF b # <<>> /\ b[1] = 0
    THEN StripFee_AllZeros(Tail(b))
    ELSE b

\* the while loop that strips leading zero bytes
RECURSIVE StripFee(_)
StripFee(b) ==
    IF b # <<>> /\ b[1] = 0
    THEN IF Len(b) > 1 /\ b[2] >= 128 THEN b ELSE StripFee(Tail(b))
    ELSE b

DelegatedPuzzleMemos(dp) ==
    CASE dp.kind = "Admin" -> <<HintByte("Admin"), dp.hash>>
      [] dp.kind = "Writer" -> <<HintByte("Writer"), dp.hash>>
      [] dp.kind = "Oracle" ->
            <<HintByte("Oracle"), dp.hash, BytesOf(StripFee(ToSignedBytesBE(dp.fee)))>>

RECURSIVE AllDelegatedMemos(_)
AllDelegatedMemos(dps) ==
    IF dps = <<>> THEN <<>>
    ELSE DelegatedPuzzleMemos(Head(dps)) \o AllDelegatedMemos(Tail(dps))

get_recreation_memos(launcher_id, owner_puzzle_hash, delegated_puzzles) ==
    <<launcher_id, owner_puzzle_hash>> \o AllDelegatedMemos(delegated_puzzles)

(***************************************************************************)
(* DelegatedPuzzle::from_memos                                             *)
(***************************************************************************)
\* takes one delegated puzzle off the front of the memo list
from_memos(memos) ==
    IF Len(memos) < 2 THEN Err("MissingMemo")
    ELSE IF memos[1] \notin {HintByte("Admin"), HintByte("Writer"), HintByte("Oracle")}
    THEN Err("InvalidMemo")
    ELSE IF ~IsBytes32(memos[2]) THEN Err("InvalidMemo")
    ELSE IF memos[1] = HintByte("Admin")
    THEN [ok |-> TRUE, dp |-> Admin(memos[2]), rest |-> SubSeq(memos, 3, Len(memos))]
    ELSE IF memos[1] = HintByte("Writer")
    THEN [ok |-> TRUE, dp |-> Writer(memos[2]), rest |-> SubSeq(memos, 3, Len(memos))]
    ELSE IF Len(memos) < 3 THEN Err("MissingMemo")
    ELSE IF IsBytes32(memos[3]) THEN Err("InvalidMemo")
    ELSE LET fee == FromSignedBytesBE(memos[3][2]) IN
         IF ~fee.some THEN Err("InvalidMemo")
         ELSE [ok |-> TRUE, dp |-> Oracle(memos[2], fee.value),
               rest |-> SubSeq(memos, 4, Len(memos))]

(***************************************************************************)
(* DataStore::build_datastore                                              *)
(***************************************************************************)
DataStoreOf(coin, proof, launcher_id, metadata, owner_puzzle_hash, delegated_puzzles) ==
    [present |-> TRUE, coin |-> coin, proof |-> proof,
     info |-> [launcher_id |-> launcher_id, metadata |-> metadata,
               owner_puzzle_hash |-> owner_puzzle_hash,
               delegated_puzzles |-> delegated_puzzles]]

\* while memos.len() > 1 { delegated_puzzles.push(from_memos(&mut memos)?) }
RECURSIVE DecodeDelegated(_, _)
DecodeDelegated(memos, acc) ==
    IF Len(memos) > 1
    THEN LET r == from_memos(memos) IN
         IF r.ok THEN DecodeDelegated(r.rest, Append(acc, r.dp)) ELSE r
    ELSE [ok |-> TRUE, dps |-> acc]

\* a panic: the call does not return
Panic == [ok |-> FALSE, err |-> "panic"]

\* v.drain(0..1).next(): the first item, taken off v; a panic on an empty v
Drain1(v) ==
    IF v = <<>> THEN [panic |-> TRUE, item |-> NilAtom, rest |-> <<>>]
    ELSE [panic |-> FALSE, item |-> Head(v), rest |-> Tail(v)]

\* v[i - 1]: a panic past the end of v
At(v, i) ==
    IF i > Len(v) THEN [panic |-> TRUE, item |-> NilAtom]
    ELSE [panic |-> FALSE, item |-> v[i]]

\* build_datastore that takes the old format for any list whose first memo is the root hash
build_datastore_LegacyAnyLength(coin, launcher_id, proof, metadata, fallback_owner_ph, memos0) ==
    IF memos0 = <<>>
    THEN [ok |-> TRUE,
          value |-> DataStoreOf(coin, proof, launcher_id, metadata, fallback_owner_ph, <<>>)]
    ELSE LET first == Drain1(memos0)
             memos == first.rest
         IN
         IF first.panic THEN Panic
         ELSE IF first.item # launcher_id THEN Err("InvalidMemo")
         ELSE IF Len(memos) >= 2 /\ At(memos, 1).panic THEN Panic
         ELSE IF Len(memos) >= 2 /\ At(memos, 1).item = metadata.root_hash
         THEN IF At(memos, 2).panic THEN Panic
              ELSE IF ~IsBytes32(At(memos, 2).item) THEN Err("InvalidMemo")
              ELSE [ok |-> TRUE,
                    value |-> DataStoreOf(coin, proof, launcher_id, metadata,
                                          At(memos, 2).item, <<>>)]
         ELSE LET owner == IF memos = <<>>
                           THEN [panic |-> FALSE, item |-> fallback_owner_ph, rest |-> <<>>]
                           ELSE Drain1(memos)
                  d == DecodeDelegated(owner.rest, <<>>)
              IN IF owner.panic THEN Panic
                 ELSE IF ~IsBytes32(owner.item) THEN Err("InvalidMemo")
                 ELSE IF ~d.ok THEN d
                 ELSE [ok |-> TRUE,
                       value |-> DataStoreOf(coin, proof, launcher_id, metadata,
                                             owner.item, d.dps)]

\* build_datastore that does not compare the first memo with the launcher id
build_datastore_NoLauncherCheck(coin, launcher_id, proof, metadata, fallback_owner_ph, memos0) ==
    IF memos0 = <<>>
    THEN [ok |-> TRUE,
          value |-> DataStoreOf(coin, proof, launcher_id, metadata, fallback_owner_ph, <<>>)]
    ELSE LET first == Drain1(memos0)
             memos == first.rest
         IN
         IF first.panic THEN Panic
         ELSE IF FALSE THEN Err("InvalidMemo")
         ELSE IF Len(memos) = 2 /\ At(memos, 1).panic THEN Panic
         ELSE IF Len(memos) = 2 /\ At(memos, 1).item = metadata.root_hash
         THEN IF At(memos, 2).panic THEN Panic
              ELSE IF ~IsBytes32(At(memos, 2).item) THEN Err("InvalidMemo")
              ELSE [ok |-> TRUE,
                    value |-> DataStoreOf(coin, proof, launcher_id, metadata,
                                          At(memos, 2).item, <<>>)]
         ELSE LET owner == IF memos = <<>>
                           THEN [panic |-> FALSE, item |-> fallback_owner_ph, rest |-> <<>>]
                           ELSE Drain1(memos)
                  d == DecodeDelegated(owner.rest, <<>>)
              IN IF owner.panic THEN Panic
                 ELSE IF ~IsBytes32(owner.item) THEN Err("InvalidMemo")
                 ELSE IF ~d.ok THEN d
                 ELSE [ok |-> TRUE,
                       value |-> DataStoreOf(coin, proof, launcher_id, metadata,
                                             owner.item, d.dps)]

\* build_datastore that does not know the old format
build_datastore_NoOldFormat(coin, launcher_id, proof, metadata, fallback_owner_ph, memos0) ==
    IF memos0 = <<>>
    THEN [ok |-> TRUE,
          value |-> DataStoreOf(coin, proof, launcher_id, metadata, fallback_owner_ph, <<>>)]
    ELSE LET first == Drain1(memos0)
             memos == first.rest
         IN
         IF first.panic THEN Panic
         ELSE IF first.item # launcher_id THEN Err("InvalidMemo")
         ELSE IF Len(memos) = 2 /\ At(memos, 1).panic THEN Panic
         ELSE IF FALSE
         THEN IF At(memos, 2).panic THEN Panic
              ELSE IF ~IsBytes32(At(memos, 2).item) THEN Err("InvalidMemo")
              ELSE [ok |-> TRUE,
                    value |-> DataStoreOf(coin, proof, launcher_id, metadata,
                                          At(memos, 2).item, <<>>)]
         ELSE LET owner == IF memos = <<>>
                           THEN [panic |-> FALSE, item |-> fallback_owner_ph, rest |-> <<>>]
                           ELSE Drain1(memos)
                  d == DecodeDelegated(owner.rest, <<>>)
              IN IF owner.panic THEN Panic
                 ELSE IF ~IsBytes32(owner.item) THEN Err("InvalidMemo")
                 ELSE IF ~d.ok THEN d
                 ELSE [ok |-> TRUE,
                       value |-> DataStoreOf(coin, proof, launcher_id, metadata,
                                             owner.item, d.dps)]

\* build_datastore without the early return for an empty memo list
build_datastore_NoEmptyTest(coin, launcher_id, proof, metadata, fallback_owner_ph, memos0) ==
    IF FALSE
    THEN [ok |-> TRUE,
          value |-> DataStoreOf(coin, proof, launcher_id, metadata, fallback_owner_ph, <<>>)]
    ELSE LET first == Drain1(memos0)
             memos == first.rest
         IN
         IF first.panic THEN Panic
         ELSE IF first.item # launcher_id THEN Err("InvalidMemo")
         ELSE IF Len(memos) = 2 /\ At(memos, 1).panic THEN Panic
         ELSE IF Len(memos) = 2 /\ At(memos, 1).item = metadata.root_hash
         THEN IF At(memos, 2).panic THEN Panic
              ELSE IF ~IsBytes32(At(memos, 2).item) THEN Err("InvalidMemo")
              ELSE [ok |-> TRUE,
                    value |-> DataStoreOf(coin, proof, launcher_id, metadata,
                                          At(memos, 2).item, <<>>)]
         ELSE LET owner == IF memos = <<>>
                           THEN [panic |-> FALSE, item |-> fallback_owner_ph, rest |-> <<>>]
                           ELSE Drain1(memos)
                  d == DecodeDelegated(owner.rest, <<>>)
              IN IF owner.panic THEN Panic
                 ELSE IF ~IsBytes32(owner.item) THEN Err("InvalidMemo")
                 ELSE IF ~d.ok THEN d
                 ELSE [ok |-> TRUE,
                       value |-> DataStoreOf(coin, proof, launcher_id, metadata,
                                             owner.item, d.dps)]

build_datastore(coin, launcher_id, proof, metadata, fallback_owner_ph, memos0) ==
    IF memos0 = <<>>
    THEN [ok |-> TRUE,
          value |-> DataStoreOf(coin, proof, launcher_id, metadata, fallback_owner_ph, <<>>)]
    ELSE LET first == Drain1(memos0)
             memos == first.rest
         IN
         IF first.panic THEN Panic
         ELSE IF first.item # launcher_id THEN Err("InvalidMemo")
         ELSE IF Len(memos) = 2 /\ At(memos, 1).panic THEN Panic
         ELSE IF Len(memos) = 2 /\ At(memos, 1).item = metadata.root_hash
         THEN IF At(memos, 2).panic THEN Panic
              ELSE IF ~IsBytes32(At(memos, 2).item) THEN Err("InvalidMemo")
              ELSE [ok |-> TRUE,
                    value |-> DataStoreOf(coin, proof, launcher_id, metadata,
                                          At(memos, 2).item, <<>>)]
         ELSE LET owner == IF memos = <<>>
                           THEN [panic |-> FALSE, item |-> fallback_owner_ph, rest |-> <<>>]
                           ELSE Drain1(memos)
                  d == DecodeDelegated(owner.rest, <<>>)
              IN IF owner.panic THEN Panic
                 ELSE IF ~IsBytes32(owner.item) THEN Err("InvalidMemo")
                 ELSE IF ~d.ok THEN d
                 ELSE [ok |-> TRUE,
                       value |-> DataStoreOf(coin, proof, launcher_id, metadata,
                                             owner.item, d.dps)]

(***************************************************************************)
(* Puzzles (revealed programs) and their tree hashes.                      *)
(***************************************************************************)
P2Puzzle(key) == [mod |-> "p2", key |-> key]

WriterPuzzle(inner) == [mod |-> "writer", inner |-> inner]

OraclePuzzle(ph, fee) == [mod |-> "oracle", oracle_puzzle_hash |-> ph, oracle_fee |-> fee]

DelegationPuzzle(launcher_id, owner_puzzle_hash, merkle_root) ==
    [mod |-> "delegation", launcher_id |-> launcher_id,
     owner_puzzle_hash |-> owner_puzzle_hash, merkle_root |-> merkle_root]

NftStatePuzzle(metadata, updater, inner) ==
    [mod |-> "nft_state", metadata |-> metadata,
     metadata_updater_puzzle_hash |-> updater, inner_puzzle |-> inner]

SingletonPuzzle(launcher_id, inner) ==
    [mod |-> "singleton", launcher_id |-> launcher_id, inner_puzzle |-> inner]

CatPuzzle(asset_id, inner) == [mod |-> "cat", asset_id |-> asset_id, inner_puzzle |-> inner]

\* a program that is no layer of this library
OpaquePuzzle(id) == [mod |-> "opaque", id |-> id]

\* clvm_utils::tree_hash of a revealed puzzle
RECURSIVE TreeHash(_)
TreeHash(p) ==
    CASE p.mod = "p2" -> P2Hash(p.key)
      [] p.mod = "writer" -> WriterHash(TreeHash(p.inner))
      [] p.mod = "oracle" -> OracleHash(p.oracle_puzzle_hash, p.oracle_fee)
      [] p.mod = "delegation" ->
            DelegationHash(p.launcher_id, p.owner_puzzle_hash, p.merkle_root)
      [] p.mod = "nft_state" ->
            NftStateHash(MetadataHash(p.metadata), p.metadata_updater_puzzle_hash,
                         TreeHash(p.inner_puzzle))
      [] p.mod = "singleton" -> SingletonHash(p.launcher_id, TreeHash(p.inner_puzzle))
      [] p.mod = "cat" -> CatHash(p.asset_id, TreeHash(p.inner_puzzle))
      [] p.mod = "opaque" -> <<"opaque", p.id>>

(***************************************************************************)
(* Conditions, as the VM outputs them.                                     *)
(***************************************************************************)
CreateCoin(puzzle_hash, amount, memos) ==
    [opcode |-> CREATE_COIN, puzzle_hash |-> puzzle_hash, amount |-> amount, memos |-> memos]

\* (51 () -113)
MeltSingleton ==
    [opcode |-> CREATE_COIN, puzzle_hash |-> NilAtom, amount |-> MELT_MAGIC_AMOUNT,
     memos |-> <<>>]

NewMetadataOutput(new_metadata) ==
    [metadata_part |-> [new_metadata |-> new_metadata,
                        new_metadata_updater_puzhash |-> DL_METADATA_UPDATER_PUZZLE_HASH],
     conditions |-> <<>>]

\* DataStore::new_metadata_condition
new_metadata_condition(new_metadata) ==
    [opcode |-> NEW_METADATA, metadata_updater_reveal |-> DL_UPDATER_REVEAL,
     metadata_updater_solution |-> NewMetadataOutput(new_metadata)]

NewMerkleRootCondition(new_merkle_root, memos) ==
    [opcode |-> NEW_MERKLE_ROOT, new_merkle_root |-> new_merkle_root, memos |-> memos]

Remark == [opcode |-> REMARK]

CreatePuzzleAnnouncement(message) ==
    [opcode |-> CREATE_PUZZLE_ANNOUNCEMENT, message |-> message]

\* Condition::from_clvm yields Condition::CreateCoin: opcode 51, a 32-byte
\* puzzle hash and a u64 amount
IsCreateCoin(c) == c.opcode = CREATE_COIN /\ IsBytes32(c.puzzle_hash) /\ c.amount >= 0

\* a CreateCoin of any amount
IsOddCreateCoin_AnyAmount(c) == IsCreateCoin(c)

IsOddCreateCoin(c) == IsCreateCoin(c) /\ c.amount % 2 = 1

\* Condition::Other that decodes as NewMetadataCondition
IsNewMetadata(c) == c.opcode = NEW_METADATA

(***************************************************************************)
(* The VM: run_puzzle(puzzle, solution).                                   *)
(***************************************************************************)
VmError == [ok |-> FALSE, out |-> <<>>]

VmOutput(conds) == [ok |-> TRUE, out |-> conds]

\* the conditions the delegation layer outputs for a delegated puzzle's
\* conditions: each NewMerkleRoot becomes the recreation of the layer under
\* the new root, everything else passes through
RECURSIVE MorphConditions(_, _)
MorphConditions(layer, conds) ==
    IF conds = <<>> THEN <<>>
    ELSE LET c == Head(conds) IN
         <<IF c.opcode = NEW_MERKLE_ROOT
           THEN CreateCoin(DelegationHash(layer.launcher_id, layer.owner_puzzle_hash,
                                          c.new_merkle_root), 1, c.memos)
           ELSE c>> \o MorphConditions(layer, Tail(conds))

HasNewMerkleRoot(conds) == \E i \in 1..Len(conds) : conds[i].opcode = NEW_MERKLE_ROOT

RECURSIVE RunPuzzle(_, _)
\* the delegation layer program
RunDelegation(layer, solution) ==
    IF "puzzle_reveal" \notin DOMAIN solution THEN VmError
    ELSE LET inner == RunPuzzle(solution.puzzle_reveal, solution.puzzle_solution)
             revealed == TreeHash(solution.puzzle_reveal)
         IN IF ~inner.ok THEN VmError
            ELSE IF ~solution.merkle_proof.some
            THEN \* the owner runs: the conditions are output as they are
                 IF revealed = layer.owner_puzzle_hash THEN inner ELSE VmError
            ELSE \* a delegated puzzle runs: it must be a leaf of the tree
                 IF layer.merkle_root[1] # "merkle_root"
                    \/ solution.merkle_proof.index \notin 1..Len(layer.merkle_root[2])
                 THEN VmError
                 ELSE IF layer.merkle_root[2][solution.merkle_proof.index] # revealed
                 THEN VmError
                 ELSE IF HasNewMerkleRoot(inner.out)
                 THEN VmOutput(MorphConditions(layer, inner.out))
                 ELSE VmOutput(Append(inner.out,
                                      CreateCoin(TreeHash(layer), 1, <<layer.launcher_id>>)))

RunPuzzle(puzzle, solution) ==
    CASE puzzle.mod = "p2" ->
            IF "delegated_puzzle" \in DOMAIN solution
            THEN VmOutput(solution.delegated_puzzle) ELSE VmError
      [] puzzle.mod = "writer" -> RunPuzzle(puzzle.inner, solution)
      [] puzzle.mod = "oracle" ->
            VmOutput(<<CreateCoin(puzzle.oracle_puzzle_hash, puzzle.oracle_fee, <<>>),
                       CreatePuzzleAnnouncement(BytesOf(<<36>>))>>)
      [] puzzle.mod = "delegation" -> RunDelegation(puzzle, solution)
      [] OTHER -> VmError

\* StandardSolution with a quoted list of conditions as delegated puzzle
P2Solution(conds) == [delegated_puzzle |-> conds]

InnerSpend(puzzle, solution) ==
    [present |-> TRUE, puzzle |-> puzzle, solution |-> solution]

(***************************************************************************)
(* Coins, proofs, coin spends.                                             *)
(***************************************************************************)
Coin(parent_coin_info, puzzle_hash, amount) ==
    [parent_coin_info |-> parent_coin_info, puzzle_hash |-> puzzle_hash, amount |-> amount]

EveProof(parent_parent_coin_info, parent_amount) ==
    [kind |-> "Eve", parent_parent_coin_info |-> parent_parent_coin_info,
     parent_amount |-> parent_amount]

LineageProof(parent_parent_coin_info, parent_inner_puzzle_hash, parent_amount) ==
    [kind |-> "Lineage", parent_parent_coin_info |-> parent_parent_coin_info,
     parent_inner_puzzle_hash |-> parent_inner_puzzle_hash,
     parent_amount |-> parent_amount]

CoinSpend(coin, puzzle_reveal, solution) ==
    [present |-> TRUE, coin |-> coin, puzzle_reveal |-> puzzle_reveal, solution |-> solution]

SingletonSolution(lineage_proof, amount, inner_solution) ==
    [lineage_proof |-> lineage_proof, amount |-> amount, inner_solution |-> inner_solution]

DelegationLayerSolution(merkle_proof, puzzle_reveal, puzzle_solution) ==
    [merkle_proof |-> merkle_proof, puzzle_reveal |-> puzzle_reveal,
     puzzle_solution |-> puzzle_solution]

(***************************************************************************)
(* DataStoreInfo: the layers of a store.                                   *)
(***************************************************************************)
\* DataStoreInfo::into_layers_with_delegation_layer, the delegation layer
DelegationLayerOf(info) ==
    DelegationPuzzle(info.launcher_id, info.owner_puzzle_hash,
                     MerkleRoot(info.delegated_puzzles))

\* DataStoreInfo::inner_puzzle_hash: the hash of the state layer
InfoInnerPuzzleHash(info) ==
    NftStateHash(MetadataHash(info.metadata), DL_METADATA_UPDATER_PUZZLE_HASH,
                 IF info.delegated_puzzles = <<>> THEN info.owner_puzzle_hash
                 ELSE TreeHash(DelegationLayerOf(info)))

(***************************************************************************)
(* DataStore::spend                                                        *)
(***************************************************************************)
\* spend that never looks up the merkle proof of the revealed puzzle
spend_NoMerkleProof(self, inner_spend) ==
    IF self.info.delegated_puzzles = <<>>
    THEN CoinSpend(self.coin,
                   SingletonPuzzle(self.info.launcher_id,
                       NftStatePuzzle(self.info.metadata, DL_METADATA_UPDATER_PUZZLE_HASH,
                                      inner_spend.puzzle)),
                   SingletonSolution(self.proof, self.coin.amount, inner_spend.solution))
    ELSE CoinSpend(self.coin,
                   SingletonPuzzle(self.info.launcher_id,
                       NftStatePuzzle(self.info.metadata, DL_METADATA_UPDATER_PUZZLE_HASH,
                                      DelegationLayerOf(self.info))),
                   SingletonSolution(self.proof, self.coin.amount,
                       DelegationLayerSolution(
                           [some |-> FALSE],
                           inner_spend.puzzle, inner_spend.solution)))

\* spend that never builds the delegation layer
spend_NeverDelegation(self, inner_spend) ==
    IF TRUE
    THEN CoinSpend(self.coin,
                   SingletonPuzzle(self.info.launcher_id,
                       NftStatePuzzle(self.info.metadata, DL_METADATA_UPDATER_PUZZLE_HASH,
                                      inner_spend.puzzle)),
                   SingletonSolution(self.proof, self.coin.amount, inner_spend.solution))
    ELSE CoinSpend(self.coin,
                   SingletonPuzzle(self.info.launcher_id,
                       NftStatePuzzle(self.info.metadata, DL_METADATA_UPDATER_PUZZLE_HASH,
                                      DelegationLayerOf(self.info))),
                   SingletonSolution(self.proof, self.coin.amount,
                       DelegationLayerSolution(
                           GetProof(self.info.delegated_puzzles, TreeHash(inner_spend.puzzle)),
                           inner_spend.puzzle, inner_spend.solution)))

\* DataStore::spend
spend(self, inner_spend) ==
    IF self.info.delegated_puzzles = <<>>
    THEN CoinSpend(self.coin,
                   SingletonPuzzle(self.info.launcher_id,
                       NftStatePuzzle(self.info.metadata, DL_METADATA_UPDATER_PUZZLE_HASH,
                                      inner_spend.puzzle)),
                   SingletonSolution(self.proof, self.coin.amount, inner_spend.solution))
    ELSE CoinSpend(self.coin,
                   SingletonPuzzle(self.info.launcher_id,
                       NftStatePuzzle(self.info.metadata, DL_METADATA_UPDATER_PUZZLE_HASH,
                                      DelegationLayerOf(self.info))),
                   SingletonSolution(self.proof, self.coin.amount,
                       DelegationLayerSolution(
                           GetProof(self.info.delegated_puzzles, TreeHash(inner_spend.puzzle)),
                           inner_spend.puzzle, inner_spend.solution)))

\* DataStore::child_lineage_proof
child_lineage_proof(self) ==
    LineageProof(self.coin.parent_coin_info, InfoInnerPuzzleHash(self.info),
                 self.coin.amount)

(***************************************************************************)
(* Launcher::mint_datastore                                                *)
(***************************************************************************)
\* Launcher::new(parent_coin_id, amount).coin()
LauncherCoin(parent_coin_id, amount) ==
    Coin(parent_coin_id, SINGLETON_LAUNCHER_PUZZLE_HASH, amount)

DLLauncherKVList(metadata, state_layer_inner_puzzle_hash, memos) ==
    [form |-> "modern", metadata |-> metadata,
     state_layer_inner_puzzle_hash |-> state_layer_inner_puzzle_hash, memos |-> memos]

OldDLLauncherKVList(root_hash, state_layer_inner_puzzle_hash, memos) ==
    [form |-> "legacy", root_hash |-> root_hash,
     state_layer_inner_puzzle_hash |-> state_layer_inner_puzzle_hash, memos |-> memos]

LauncherSolution(singleton_puzzle_hash, amount, key_value_list) ==
    [singleton_puzzle_hash |-> singleton_puzzle_hash, amount |-> amount,
     key_value_list |-> key_value_list]

\* the datastore that mint_datastore returns
MintedStore(launcher_coin, metadata, owner_puzzle_hash, delegated_puzzles) ==
    LET launcher_id == CoinId(launcher_coin)
        info == [launcher_id |-> launcher_id, metadata |-> metadata,
                 owner_puzzle_hash |-> owner_puzzle_hash,
                 delegated_puzzles |-> delegated_puzzles]
    IN [present |-> TRUE,
        coin |-> Coin(launcher_id, SingletonHash(launcher_id, InfoInnerPuzzleHash(info)),
                      launcher_coin.amount),
        proof |-> EveProof(launcher_coin.parent_coin_info, launcher_coin.amount),
        info |-> info]

\* the spend of the launcher coin that mint_datastore builds
MintedSpend(launcher_coin, metadata, owner_puzzle_hash, delegated_puzzles) ==
    LET store == MintedStore(launcher_coin, metadata, owner_puzzle_hash, delegated_puzzles)
        inner_puzzle_hash ==
            IF delegated_puzzles = <<>> THEN owner_puzzle_hash
            ELSE TreeHash(DelegationLayerOf(store.info))
        memos == IF delegated_puzzles = <<>> THEN <<>>
                 ELSE Tail(get_recreation_memos(store.info.launcher_id, owner_puzzle_hash,
                                                delegated_puzzles))
    IN CoinSpend(launcher_coin, OpaquePuzzle("singleton_launcher"),
                 LauncherSolution(store.coin.puzzle_hash, launcher_coin.amount,
                                  DLLauncherKVList(metadata, inner_puzzle_hash, memos)))

(***************************************************************************)
(* DataStore::from_spend                                                   *)
(***************************************************************************)
OkNone == [ok |-> TRUE, some |-> FALSE, runs |-> 0]

\* Ok(Some(store)); path names the return statement taken and runs counts
\* the calls of run_puzzle made before it
OkSome(store, path, runs) ==
    [ok |-> TRUE, some |-> TRUE, value |-> store, path |-> path, runs |-> runs]

\* Ok(Some(build_datastore(..)?))
OkBuilt(built, path, runs) ==
    IF built.ok THEN OkSome(built.value, path, runs) ELSE built

\* a FromClvmError, as DriverError::FromClvm
FromClvmErr(kind) == [ok |-> FALSE, err |-> "FromClvm", kind |-> kind]

\* LauncherSolution::<DLLauncherKVList<M, Bytes>>::from_clvm on the key-value
\* list: the first element must be the list of the metadata, the second a
\* 32-byte atom
DecodeDLLauncherKVList(kv) ==
    IF kv.form = "atom" THEN FromClvmErr("ExpectedPair")
    ELSE IF kv.form = "legacy" THEN FromClvmErr("ExpectedPair")
    ELSE IF ~IsBytes32(kv.state_layer_inner_puzzle_hash) THEN FromClvmErr("WrongAtomLength")
    ELSE [ok |-> TRUE, value |-> kv]

\* LauncherSolution::<OldDLLauncherKVList<Bytes>>::from_clvm on the key-value
\* list: the first two elements must be 32-byte atoms
DecodeOldDLLauncherKVList(kv) ==
    IF kv.form = "atom" THEN FromClvmErr("ExpectedPair")
    ELSE IF kv.form = "modern" THEN FromClvmErr("ExpectedAtom")
    ELSE IF ~IsBytes32(kv.root_hash) THEN FromClvmErr("WrongAtomLength")
    ELSE IF ~IsBytes32(kv.state_layer_inner_puzzle_hash) THEN FromClvmErr("WrongAtomLength")
    ELSE [ok |-> TRUE, value |-> kv]

\* the launcher branch without the launcher id put before the memos
FromLauncherSpend_NoLauncherId(coin_spend) ==
    LET launcher_id == CoinId(coin_spend.coin)
        proof == EveProof(coin_spend.coin.parent_coin_info, coin_spend.coin.amount)
        solution == coin_spend.solution
    IN IF "key_value_list" \notin DOMAIN solution THEN FromClvmErr("ExpectedAtom")
       ELSE LET kv == solution.key_value_list
                new_coin == Coin(launcher_id, solution.singleton_puzzle_hash,
                                 solution.amount)
                modern == DecodeDLLauncherKVList(kv)
            IN IF modern.ok
               THEN OkBuilt(build_datastore(new_coin, launcher_id, proof, kv.metadata,
                                            kv.state_layer_inner_puzzle_hash,
                                            kv.memos),
                            "launcher", 0)
               ELSE IF modern.kind = "ExpectedPair"
               THEN \* datastore launched using old memo format
                    LET legacy == DecodeOldDLLauncherKVList(kv) IN
                    IF ~legacy.ok THEN legacy
                    ELSE OkBuilt(build_datastore(new_coin, launcher_id, proof,
                                                 RootHashOnly(kv.root_hash),
                                                 kv.state_layer_inner_puzzle_hash,
                                                 kv.memos),
                                 "launcher_legacy", 0)
               ELSE modern

\* the launcher branch that tries the old format after every decode error
FromLauncherSpend_AlwaysRetries(coin_spend) ==
    LET launcher_id == CoinId(coin_spend.coin)
        proof == EveProof(coin_spend.coin.parent_coin_info, coin_spend.coin.amount)
        solution == coin_spend.solution
    IN IF "key_value_list" \notin DOMAIN solution THEN FromClvmErr("ExpectedAtom")
       ELSE LET kv == solution.key_value_list
                new_coin == Coin(launcher_id, solution.singleton_puzzle_hash,
                                 solution.amount)
                modern == DecodeDLLauncherKVList(kv)
            IN IF modern.ok
               THEN OkBuilt(build_datastore(new_coin, launcher_id, proof, kv.metadata,
                                            kv.state_layer_inner_puzzle_hash,
                                            <<launcher_id>> \o kv.memos),
                            "launcher", 0)
               ELSE IF TRUE
               THEN \* datastore launched using old memo format
                    LET legacy == DecodeOldDLLauncherKVList(kv) IN
                    IF ~legacy.ok THEN legacy
                    ELSE OkBuilt(build_datastore(new_coin, launcher_id, proof,
                                                 RootHashOnly(kv.root_hash),
                                                 kv.state_layer_inner_puzzle_hash,
                                                 kv.memos),
                                 "launcher_legacy", 0)
               ELSE modern

\* the launcher branch, lines 241-305
FromLauncherSpend(coin_spend) ==
    LET launcher_id == CoinId(coin_spend.coin)
        proof == EveProof(coin_spend.coin.parent_coin_info, coin_spend.coin.amount)
        solution == coin_spend.solution
    IN IF "key_value_list" \notin DOMAIN solution THEN FromClvmErr("ExpectedAtom")
       ELSE LET kv == solution.key_value_list
                new_coin == Coin(launcher_id, solution.singleton_puzzle_hash,
                                 solution.amount)
                modern == DecodeDLLauncherKVList(kv)
            IN IF modern.ok
               THEN OkBuilt(build_datastore(new_coin, launcher_id, proof, kv.metadata,
                                            kv.state_layer_inner_puzzle_hash,
                                            <<launcher_id>> \o kv.memos),
                            "launcher", 0)
               ELSE IF modern.kind = "ExpectedPair"
               THEN \* datastore launched using old memo format
                    LET legacy == DecodeOldDLLauncherKVList(kv) IN
                    IF ~legacy.ok THEN legacy
                    ELSE OkBuilt(build_datastore(new_coin, launcher_id, proof,
                                                 RootHashOnly(kv.root_hash),
                                                 kv.state_layer_inner_puzzle_hash,
                                                 kv.memos),
                                 "launcher_legacy", 0)
               ELSE modern

\* the first odd-amount CreateCoin taken as the recreating one
RECURSIVE LastOddCreateCoin_First(_)
LastOddCreateCoin_First(conds) ==
    IF conds = <<>> THEN [some |-> FALSE]
    ELSE LET c == Head(conds) IN
         IF IsOddCreateCoin(c) THEN [some |-> TRUE, value |-> c]
         ELSE LastOddCreateCoin_First(Tail(conds))

\* the loop of lines 341-355: the last odd-amount CreateCoin
RECURSIVE LastOddCreateCoin(_)
LastOddCreateCoin(conds) ==
    IF conds = <<>> THEN [some |-> FALSE]
    ELSE LET c == conds[Len(conds)] IN
         IF IsOddCreateCoin(c) THEN [some |-> TRUE, value |-> c]
         ELSE LastOddCreateCoin(SubSeq(conds, 1, Len(conds) - 1))

\* the first NewMetadata condition
RECURSIVE LastNewMetadata_First(_)
LastNewMetadata_First(conds) ==
    IF conds = <<>> THEN [some |-> FALSE]
    ELSE LET c == Head(conds) IN
         IF IsNewMetadata(c) THEN [some |-> TRUE, value |-> c]
         ELSE LastNewMetadata_First(Tail(conds))

\* the loop of lines 341-355: the last NewMetadata condition
RECURSIVE LastNewMetadata(_)
LastNewMetadata(conds) ==
    IF conds = <<>> THEN [some |-> FALSE]
    ELSE LET c == conds[Len(conds)] IN
         IF IsNewMetadata(c) THEN [some |-> TRUE, value |-> c]
         ELSE LastNewMetadata(SubSeq(conds, 1, Len(conds) - 1))

\* lines 436-442: .find() of the first odd-amount CreateCoin
RECURSIVE FirstOddCreateCoin(_)
FirstOddCreateCoin(conds) ==
    IF conds = <<>> THEN [some |-> FALSE]
    ELSE IF IsOddCreateCoin(Head(conds)) THEN [some |-> TRUE, value |-> Head(conds)]
    ELSE FirstOddCreateCoin(Tail(conds))

\* NftStateLayer::get_next_metadata: runs the updater reveal on the updater
\* solution and decodes the output as NewMetadataOutput
get_next_metadata(condition) ==
    IF condition.metadata_updater_reveal = DL_UPDATER_REVEAL
       /\ "metadata_part" \in DOMAIN condition.metadata_updater_solution
    THEN [ok |-> TRUE,
          value |-> condition.metadata_updater_solution.metadata_part.new_metadata]
    ELSE Err("FromClvm")

\* a lineage proof with the amount of a fresh singleton
SingletonLineageProof_AmountOne(singleton_layer, coin) ==
    LineageProof(coin.parent_coin_info, TreeHash(singleton_layer.inner_puzzle),
                 1)

\* SingletonLayer::lineage_proof(coin)
SingletonLineageProof(singleton_layer, coin) ==
    LineageProof(coin.parent_coin_info, TreeHash(singleton_layer.inner_puzzle),
                 coin.amount)

\* the successor coin with the amount of the spent coin
NewCoin_ParentAmount(coin_spend, singleton_layer, state_layer, new_metadata, create_coin) ==
    Coin(CoinId(coin_spend.coin),
         SingletonHash(singleton_layer.launcher_id,
                       NftStateHash(MetadataHash(new_metadata),
                                    state_layer.metadata_updater_puzzle_hash,
                                    create_coin.puzzle_hash)),
         coin_spend.coin.amount)

\* lines 375-393: the coin of the successor
NewCoin(coin_spend, singleton_layer, state_layer, new_metadata, create_coin) ==
    Coin(CoinId(coin_spend.coin),
         SingletonHash(singleton_layer.launcher_id,
                       NftStateHash(MetadataHash(new_metadata),
                                    state_layer.metadata_updater_puzzle_hash,
                                    create_coin.puzzle_hash)),
         create_coin.amount)

\* the delegation branch that takes a payment to the owner for the recreation
FromDelegationSpend_OwnerHash(delegation_layer, inner_solution, new_coin, proof, launcher_id, new_metadata, parent_delegated_puzzles) ==
    LET owner_puzzle_hash == delegation_layer.owner_puzzle_hash IN
    IF "puzzle_reveal" \notin DOMAIN inner_solution THEN Err("FromClvm")
    ELSE LET output == RunPuzzle(inner_solution.puzzle_reveal,
                                 inner_solution.puzzle_solution)
         IN IF ~output.ok THEN Err("Vm")
            ELSE LET odd_create_coin == FirstOddCreateCoin(output.out) IN
                 IF ~odd_create_coin.some
                 THEN OkSome(DataStoreOf(new_coin, proof, launcher_id, new_metadata,
                                         owner_puzzle_hash, parent_delegated_puzzles),
                             "injected", 2)
                 ELSE IF odd_create_coin.value.puzzle_hash = owner_puzzle_hash
                 THEN OkSome(DataStoreOf(new_coin, proof, launcher_id, new_metadata,
                                         owner_puzzle_hash, parent_delegated_puzzles),
                             "recreated", 2)
                 ELSE OkSome(DataStoreOf(new_coin, proof, launcher_id, new_metadata,
                                         odd_create_coin.value.puzzle_hash, <<>>),
                             "exit", 2)

\* the delegation branch that keeps the caller's list when the owner leaves
FromDelegationSpend_KeepsList(delegation_layer, inner_solution, new_coin, proof, launcher_id, new_metadata, parent_delegated_puzzles) ==
    LET owner_puzzle_hash == delegation_layer.owner_puzzle_hash IN
    IF "puzzle_reveal" \notin DOMAIN inner_solution THEN Err("FromClvm")
    ELSE LET output == RunPuzzle(inner_solution.puzzle_reveal,
                                 inner_solution.puzzle_solution)
         IN IF ~output.ok THEN Err("Vm")
            ELSE LET odd_create_coin == FirstOddCreateCoin(output.out) IN
                 IF ~odd_create_coin.some
                 THEN OkSome(DataStoreOf(new_coin, proof, launcher_id, new_metadata,
                                         owner_puzzle_hash, parent_delegated_puzzles),
                             "injected", 2)
                 ELSE IF odd_create_coin.value.puzzle_hash = TreeHash(delegation_layer)
                 THEN OkSome(DataStoreOf(new_coin, proof, launcher_id, new_metadata,
                                         owner_puzzle_hash, parent_delegated_puzzles),
                             "recreated", 2)
                 ELSE OkSome(DataStoreOf(new_coin, proof, launcher_id, new_metadata,
                                         odd_create_coin.value.puzzle_hash,
                                         parent_delegated_puzzles),
                             "exit", 2)

\* lines 411-484: the parent has a delegation layer
FromDelegationSpend(delegation_layer, inner_solution, new_coin, proof, launcher_id, new_metadata, parent_delegated_puzzles) ==
    LET owner_puzzle_hash == delegation_layer.owner_puzzle_hash IN
    IF "puzzle_reveal" \notin DOMAIN inner_solution THEN Err("FromClvm")
    ELSE LET output == RunPuzzle(inner_solution.puzzle_reveal,
                                 inner_solution.puzzle_solution)
         IN IF ~output.ok THEN Err("Vm")
            ELSE LET odd_create_coin == FirstOddCreateCoin(output.out) IN
                 IF ~odd_create_coin.some
                 THEN OkSome(DataStoreOf(new_coin, proof, launcher_id, new_metadata,
                                         owner_puzzle_hash, parent_delegated_puzzles),
                             "injected", 2)
                 ELSE IF odd_create_coin.value.puzzle_hash = TreeHash(delegation_layer)
                 THEN OkSome(DataStoreOf(new_coin, proof, launcher_id, new_metadata,
                                         owner_puzzle_hash, parent_delegated_puzzles),
                             "recreated", 2)
                 ELSE OkSome(DataStoreOf(new_coin, proof, launcher_id, new_metadata,
                                         odd_create_coin.value.puzzle_hash, <<>>),
                             "exit", 2)

\* the successor with the memos read only when the parent has no delegation layer
Successor_DelegationFirst(inner_puzzle, inner_solution, create_coin, new_coin, proof, launcher_id, new_metadata, parent_delegated_puzzles) ==
    IF inner_puzzle.mod = "delegation"
    THEN FromDelegationSpend(inner_puzzle, inner_solution, new_coin, proof, launcher_id,
                             new_metadata, parent_delegated_puzzles)
    ELSE IF Len(create_coin.memos) > 1
    THEN OkBuilt(build_datastore(new_coin, launcher_id, proof, new_metadata,
                                 TreeHash(inner_puzzle), create_coin.memos),
                 "memos", 1)
    ELSE OkSome(DataStoreOf(new_coin, proof, launcher_id, new_metadata,
                            TreeHash(inner_puzzle), <<>>),
                "vanilla", 1)

\* the successor that keeps the caller's list without a delegation layer
Successor_VanillaKeepsList(inner_puzzle, inner_solution, create_coin, new_coin, proof, launcher_id, new_metadata, parent_delegated_puzzles) ==
    IF Len(create_coin.memos) > 1
    THEN OkBuilt(build_datastore(new_coin, launcher_id, proof, new_metadata,
                                 TreeHash(inner_puzzle), create_coin.memos),
                 "memos", 1)
    ELSE IF inner_puzzle.mod = "delegation"
    THEN FromDelegationSpend(inner_puzzle, inner_solution, new_coin, proof, launcher_id,
                             new_metadata, parent_delegated_puzzles)
    ELSE OkSome(DataStoreOf(new_coin, proof, launcher_id, new_metadata,
                            TreeHash(inner_puzzle), parent_delegated_puzzles),
                "vanilla", 1)

\* lines 395-496: the successor, by the memos of the recreating CreateCoin
\* and by the layer under the parent's state layer
Successor(inner_puzzle, inner_solution, create_coin, new_coin, proof, launcher_id, new_metadata, parent_delegated_puzzles) ==
    IF Len(create_coin.memos) > 1
    THEN OkBuilt(build_datastore(new_coin, launcher_id, proof, new_metadata,
                                 TreeHash(inner_puzzle), create_coin.memos),
                 "memos", 1)
    ELSE IF inner_puzzle.mod = "delegation"
    THEN FromDelegationSpend(inner_puzzle, inner_solution, new_coin, proof, launcher_id,
                             new_metadata, parent_delegated_puzzles)
    ELSE OkSome(DataStoreOf(new_coin, proof, launcher_id, new_metadata,
                            TreeHash(inner_puzzle), <<>>),
                "vanilla", 1)

\* lines 325-393: the spend of a store, its layers parsed
FromStoreSpend(coin_spend, parent_delegated_puzzles) ==
    IF "inner_solution" \notin DOMAIN coin_spend.solution THEN Err("FromClvm")
    ELSE
    LET singleton_layer == coin_spend.puzzle_reveal
        state_layer == singleton_layer.inner_puzzle
        inner_puzzle == state_layer.inner_puzzle
        inner_solution == coin_spend.solution.inner_solution
        inner_output == RunPuzzle(inner_puzzle, inner_solution)
    IN IF ~inner_output.ok THEN Err("Vm")
       ELSE
       LET inner_create_coin_condition == LastOddCreateCoin(inner_output.out)
           inner_new_metadata_condition == LastNewMetadata(inner_output.out)
       IN IF ~inner_create_coin_condition.some THEN Err("MissingChild")
          ELSE
          LET next == IF inner_new_metadata_condition.some
                      THEN get_next_metadata(inner_new_metadata_condition.value)
                      ELSE [ok |-> TRUE, value |-> state_layer.metadata]
          IN IF ~next.ok THEN next
             ELSE Successor(inner_puzzle, inner_solution,
                            inner_create_coin_condition.value,
                            NewCoin(coin_spend, singleton_layer, state_layer, next.value,
                                    inner_create_coin_condition.value),
                            SingletonLineageProof(singleton_layer, coin_spend.coin),
                            singleton_layer.launcher_id, next.value,
                            parent_delegated_puzzles)

\* the branch that fails on a puzzle which is no singleton
FromSingletonSpend_Strict(coin_spend, parent_delegated_puzzles) ==
    IF coin_spend.puzzle_reveal.mod # "singleton" THEN Err("NonStandardLayer")
    ELSE IF coin_spend.puzzle_reveal.inner_puzzle.mod # "nft_state" THEN OkNone
    ELSE FromStoreSpend(coin_spend, parent_delegated_puzzles)

\* lines 307-323: the spend of a coin that is no launcher
FromSingletonSpend(coin_spend, parent_delegated_puzzles) ==
    IF coin_spend.puzzle_reveal.mod # "singleton" THEN OkNone
    ELSE IF coin_spend.puzzle_reveal.inner_puzzle.mod # "nft_state" THEN OkNone
    ELSE FromStoreSpend(coin_spend, parent_delegated_puzzles)

from_spend(coin_spend, parent_delegated_puzzles) ==
    IF coin_spend.coin.puzzle_hash = SINGLETON_LAUNCHER_PUZZLE_HASH
    THEN FromLauncherSpend(coin_spend)
    ELSE FromSingletonSpend(coin_spend, parent_delegated_puzzles)

(***************************************************************************)
(* The values the model draws its inputs from.                             *)
(***************************************************************************)
Metadata1 == RootHashOnly(<<"root_hash", "zero">>)

Metadata2 == [root_hash |-> <<"root_hash", "some">>, label |-> "label"]

Metadatas == {Metadata1, Metadata2}

OwnerPuzzleHash == P2Hash("owner")

Owner2PuzzleHash == P2Hash("owner2")

OwnerPuzzleHashes == {OwnerPuzzleHash, Owner2PuzzleHash}

AdminDelegatedPuzzle == Admin(P2Hash("admin"))

WriterDelegatedPuzzle == Writer(P2Hash("writer"))

OracleDelegatedPuzzle == Oracle(<<"oracle_address">>, 1000)

AllDelegated == <<AdminDelegatedPuzzle, WriterDelegatedPuzzle, OracleDelegatedPuzzle>>

\* the delegated puzzle lists of the stores
DelegatedLists == {<<>>, AllDelegated}

\* the parent_delegated_puzzles a caller passes
ParentDelegatedLists == {<<>>, AllDelegated, <<WriterDelegatedPuzzle>>}

GenesisCoinId == <<"coin_id", "genesis">>

\* the stores minted by Launcher::new(GenesisCoinId, 1).mint_datastore
MintedStores ==
    {MintedStore(LauncherCoin(GenesisCoinId, 1), m, o, d) :
        m \in Metadatas, o \in OwnerPuzzleHashes, d \in DelegatedLists}

\* stores further down the lineage, as DataStore::new takes them
LaterStores ==
    {LET info == [launcher_id |-> CoinId(LauncherCoin(GenesisCoinId, 1)), metadata |-> m,
                  owner_puzzle_hash |-> OwnerPuzzleHash, delegated_puzzles |-> d]
     IN [present |-> TRUE,
         coin |-> Coin(<<"coin_id", "parent">>,
                       SingletonHash(info.launcher_id, InfoInnerPuzzleHash(info)), 3),
         proof |-> LineageProof(<<"coin_id", "grandparent">>,
                                InfoInnerPuzzleHash(info), 1),
         info |-> info] :
        m \in Metadatas, d \in DelegatedLists}

\* owner_create_coin_condition that never writes the hints
owner_create_coin_condition_NeverHints(launcher_id, new_inner_puzzle_hash, new_delegated_puzzles, hint_delegated_puzzles) ==
    CreateCoin(IF new_delegated_puzzles = <<>> THEN new_inner_puzzle_hash
               ELSE DelegationHash(launcher_id, new_inner_puzzle_hash,
                                   MerkleRoot(new_delegated_puzzles)),
               1,
               IF FALSE
               THEN get_recreation_memos(launcher_id, new_inner_puzzle_hash,
                                         new_delegated_puzzles)
               ELSE <<launcher_id>>)

\* DataStore::owner_create_coin_condition
owner_create_coin_condition(launcher_id, new_inner_puzzle_hash, new_delegated_puzzles, hint_delegated_puzzles) ==
    CreateCoin(IF new_delegated_puzzles = <<>> THEN new_inner_puzzle_hash
               ELSE DelegationHash(launcher_id, new_inner_puzzle_hash,
                                   MerkleRoot(new_delegated_puzzles)),
               1,
               IF hint_delegated_puzzles
               THEN get_recreation_memos(launcher_id, new_inner_puzzle_hash,
                                         new_delegated_puzzles)
               ELSE <<launcher_id>>)

\* the conditions the inner puzzles of a store's spends output
ConditionsFor(store) ==
    LET launcher_id == store.info.launcher_id IN
    { CreateCoin(OwnerPuzzleHash, 1, <<>>),
      CreateCoin(Owner2PuzzleHash, 3, <<launcher_id>>),
      CreateCoin(OwnerPuzzleHash, 2, <<>>),
      CreateCoin(OwnerPuzzleHash, 1, <<OwnerPuzzleHash, BytesOf(<<7>>)>>),
      owner_create_coin_condition(launcher_id, store.info.owner_puzzle_hash,
                                  store.info.delegated_puzzles, FALSE),
      owner_create_coin_condition(launcher_id, Owner2PuzzleHash,
                                  <<AdminDelegatedPuzzle>>, TRUE),
      owner_create_coin_condition(launcher_id, Owner2PuzzleHash,
                                  store.info.delegated_puzzles, FALSE),
      MeltSingleton,
      new_metadata_condition(Metadata1),
      new_metadata_condition(Metadata2),
      NewMerkleRootCondition(MerkleRoot(<<AdminDelegatedPuzzle, OracleDelegatedPuzzle>>),
          get_recreation_memos(launcher_id, OwnerPuzzleHash,
                               <<AdminDelegatedPuzzle, OracleDelegatedPuzzle>>)) }

SeqsUpTo(S, n) == UNION {[1..k -> S] : k \in 0..n}

\* the puzzles revealed as inner puzzle of a spend
P2Puzzles ==
    {P2Puzzle("owner"), P2Puzzle("owner2"), P2Puzzle("admin"),
     WriterPuzzle(P2Puzzle("writer"))}

InnerSpendsFor(store) ==
    {InnerSpend(p, P2Solution(c)) :
        p \in P2Puzzles, c \in SeqsUpTo(ConditionsFor(store), MaxConds)}
    \cup {InnerSpend(OraclePuzzle(<<"oracle_address">>, 1000), P2Solution(<<>>))}

\* the memos of the key-value lists of launcher solutions
LauncherMemoLists ==
    LET launcher_id == CoinId(LauncherCoin(GenesisCoinId, 1)) IN
    {<<>>, <<OwnerPuzzleHash>>, <<launcher_id>>, <<launcher_id, OwnerPuzzleHash>>,
     <<launcher_id, Metadata1.root_hash, OwnerPuzzleHash>>,
     <<OwnerPuzzleHash, HintByte("Admin"), AdminDelegatedPuzzle.hash>>,
     <<BytesOf(<<7>>)>>}

\* the key-value lists of launcher solutions, as they are serialized: in the
\* modern and in the old format, with hashes of the right and of a wrong
\* length, and an atom in place of the list
LauncherKVLists ==
    {DLLauncherKVList(m, h, l) :
        m \in Metadatas, h \in {Owner2PuzzleHash, BytesOf(<<7>>)}, l \in LauncherMemoLists}
    \cup {OldDLLauncherKVList(r, h, l) :
            r \in {Metadata1.root_hash, BytesOf(<<7>>)},
            h \in {Owner2PuzzleHash, BytesOf(<<7>>)}, l \in LauncherMemoLists}
    \cup {[form |-> "atom"]}

\* coin spends that this library did not build
ForeignSpends ==
    LET launcher == LauncherCoin(GenesisCoinId, 1)
        launcher_id == CoinId(launcher)
        proof == EveProof(GenesisCoinId, 1)
        state(inner) == NftStatePuzzle(Metadata1, DL_METADATA_UPDATER_PUZZLE_HASH, inner)
        spendOf(puzzle, solution) ==
            CoinSpend(Coin(launcher_id, TreeHash(puzzle), 1), puzzle, solution)
        conds == <<CreateCoin(OwnerPuzzleHash, 1, <<>>)>>
    IN { \* a coin that is no singleton
         spendOf(P2Puzzle("owner"), P2Solution(conds)),
         spendOf(state(P2Puzzle("owner")), P2Solution(conds)),
         \* a singleton that is no store
         spendOf(SingletonPuzzle(launcher_id, P2Puzzle("owner")),
                 SingletonSolution(proof, 1, P2Solution(conds))),
         spendOf(SingletonPuzzle(launcher_id, OpaquePuzzle("did")),
                 SingletonSolution(proof, 1, P2Solution(conds))),
         \* a store spent with a solution of another shape
         spendOf(SingletonPuzzle(launcher_id, state(P2Puzzle("owner"))),
                 LauncherSolution(OwnerPuzzleHash, 1,
                                  DLLauncherKVList(Metadata1, OwnerPuzzleHash, <<>>))),
         spendOf(SingletonPuzzle(launcher_id,
                     state(DelegationPuzzle(launcher_id, OwnerPuzzleHash,
                                            MerkleRoot(AllDelegated)))),
                 SingletonSolution(proof, 1, P2Solution(conds))),
         spendOf(SingletonPuzzle(launcher_id, state(OpaquePuzzle("unknown"))),
                 SingletonSolution(proof, 1, P2Solution(conds))),
         \* a launcher coin spent with a solution of another shape
         CoinSpend(launcher, OpaquePuzzle("singleton_launcher"),
                   SingletonSolution(proof, 1, P2Solution(conds))) }
        \cup
        \* launcher spends that somebody else wrote
        {CoinSpend(launcher, OpaquePuzzle("singleton_launcher"),
                   LauncherSolution(SingletonHash(launcher_id, OwnerPuzzleHash), 1, kv)) :
            kv \in LauncherKVLists}

(***************************************************************************)
(* The state machine: a caller that mints or constructs a store, spends    *)
(* it, and parses coin spends.                                             *)
(***************************************************************************)
Init ==
    /\ datastore = NoStore
    /\ spent_with = NoStore
    /\ cs = NoStore
    /\ pdp = <<>>
    /\ res = NoStore
    /\ dsargs = NoStore
    /\ memo_list = NoStore
    /\ rebuilt = NoStore
    /\ cat = NoStore
    /\ cat_with = NoStore
    /\ cat_out = NoStore
    /\ cat_cs = NoStore
    /\ cat_res = NoStore
    /\ ctx_spends = <<>>
    /\ ctx_log = <<>>
    /\ ctx_taken = NoStore
    /\ nft_out = NoStore
    /\ fee_be = <<>>
    /\ fee_memo = NoStore

\* Launcher::mint_datastore: the store and the spend of the launcher coin
Mint ==
    /\ ~datastore.present /\ ~cs.present
    /\ \E m \in Metadatas, o \in OwnerPuzzleHashes, d \in DelegatedLists :
        /\ datastore' = MintedStore(LauncherCoin(GenesisCoinId, 1), m, o, d)
        /\ cs' = MintedSpend(LauncherCoin(GenesisCoinId, 1), m, o, d)
        /\ spent_with' = NoStore
        /\ pdp' = <<>>
        /\ res' = NoStore
    /\ UNCHANGED <<memo_vars, cat_vars, ctx_vars, fee_vars>>

\* DataStore::new
New ==
    /\ ~datastore.present /\ ~cs.present
    /\ \E s \in LaterStores :
        /\ datastore' = s
        /\ cs' = NoStore
        /\ spent_with' = NoStore
        /\ pdp' = <<>>
        /\ res' = NoStore
    /\ UNCHANGED <<memo_vars, cat_vars, ctx_vars, fee_vars>>

\* DataStore::spend, which consumes the store: it is spent once
Spend ==
    /\ datastore.present
    /\ ~spent_with.present
    /\ \E i \in InnerSpendsFor(datastore) :
        /\ spent_with' = i
        /\ cs' = spend(datastore, i)
    /\ pdp' = <<>>
    /\ res' = NoStore
    /\ UNCHANGED datastore
    /\ UNCHANGED <<memo_vars, cat_vars, ctx_vars, fee_vars>>

\* a coin spend read from the chain
Receive ==
    /\ ~datastore.present /\ ~cs.present
    /\ cs' \in ForeignSpends
    /\ datastore' = NoStore
    /\ spent_with' = NoStore
    /\ pdp' = <<>>
    /\ res' = NoStore
    /\ UNCHANGED <<memo_vars, cat_vars, ctx_vars, fee_vars>>

\* DataStore::from_spend
Parse ==
    /\ cs.present
    /\ res = NoStore
    /\ \E q \in ParentDelegatedLists :
        /\ pdp' = q
        /\ res' = from_spend(cs, q)
    /\ UNCHANGED <<datastore, spent_with, cs>>
    /\ UNCHANGED <<memo_vars, cat_vars, ctx_vars, fee_vars>>

Next == Mint \/ New \/ Spend \/ Receive \/ Parse

Spec == Init /\ [][Next]_vars

(***************************************************************************)
(* The memo protocol on its own: memos written by get_recreation_memos or  *)
(* read from the chain, decoded by build_datastore.                        *)
(***************************************************************************)
\* the most delegated puzzles get_recreation_memos is given
MaxDelegated == 2

\* the most memos of a list read from the chain
MaxMemos == 4

\* oracle fees around the byte boundaries of the signed encoding
OracleFees == {0, 1, 127, 128, 255, 256, 1000, 32768}

DelegatedPuzzles ==
    {AdminDelegatedPuzzle, WriterDelegatedPuzzle}
        \cup {Oracle(<<"oracle_address">>, f) : f \in OracleFees}

\* the owners get_recreation_memos is given: one of them is a root hash
MemoOwners == {OwnerPuzzleHash, Metadata1.root_hash, Metadata2.root_hash}

MemoLauncherId == CoinId(LauncherCoin(GenesisCoinId, 1))

OtherLauncherId == CoinId(LauncherCoin(<<"coin_id", "other">>, 1))

\* the arguments of build_datastore beside the memos
BuildArgs ==
    {[present |-> TRUE,
      coin |-> Coin(MemoLauncherId, SingletonHash(MemoLauncherId, f), 1),
      launcher_id |-> MemoLauncherId,
      proof |-> EveProof(GenesisCoinId, 1),
      metadata |-> m,
      fallback_owner_ph |-> f] :
        m \in Metadatas, f \in {Owner2PuzzleHash, Metadata1.root_hash}}

\* the memos of the lists read from the chain
MemoAlphabet(args) ==
    {args.launcher_id, OtherLauncherId, args.metadata.root_hash, OwnerPuzzleHash,
     HintByte("Admin"), HintByte("Oracle"), BytesOf(<<7>>)}

MemoInit ==
    /\ datastore = NoStore
    /\ spent_with = NoStore
    /\ cs = NoStore
    /\ pdp = <<>>
    /\ res = NoStore
    /\ dsargs \in BuildArgs
    /\ memo_list = NoStore
    /\ rebuilt = NoStore
    /\ cat = NoStore
    /\ cat_with = NoStore
    /\ cat_out = NoStore
    /\ cat_cs = NoStore
    /\ cat_res = NoStore
    /\ ctx_spends = <<>>
    /\ ctx_log = <<>>
    /\ ctx_taken = NoStore
    /\ nft_out = NoStore
    /\ fee_be = <<>>
    /\ fee_memo = NoStore

\* DataStore::get_recreation_memos
Recreate ==
    /\ dsargs.present
    /\ ~memo_list.present
    /\ \E o \in MemoOwners, d \in SeqsUpTo(DelegatedPuzzles, MaxDelegated) :
        memo_list' = [present |-> TRUE, from |-> "get_recreation_memos",
                      owner_puzzle_hash |-> o, delegated_puzzles |-> d,
                      list |-> get_recreation_memos(dsargs.launcher_id, o, d)]
    /\ UNCHANGED <<dsargs, rebuilt>>
    /\ UNCHANGED <<store_vars, cat_vars, ctx_vars, fee_vars>>

\* the memos of a CreateCoin or of a launcher solution that somebody else wrote
Hint ==
    /\ dsargs.present
    /\ ~memo_list.present
    /\ \E l \in SeqsUpTo(MemoAlphabet(dsargs), MaxMemos) :
        memo_list' = [present |-> TRUE, from |-> "chain", list |-> l]
    /\ UNCHANGED <<dsargs, rebuilt>>
    /\ UNCHANGED <<store_vars, cat_vars, ctx_vars, fee_vars>>

\* DataStore::build_datastore
Build ==
    /\ memo_list.present
    /\ rebuilt = NoStore
    /\ rebuilt' = build_datastore(dsargs.coin, dsargs.launcher_id, dsargs.proof,
                                  dsargs.metadata, dsargs.fallback_owner_ph,
                                  memo_list.list)
    /\ UNCHANGED <<dsargs, memo_list>>
    /\ UNCHANGED <<store_vars, cat_vars, ctx_vars, fee_vars>>

MemoNext == Recreate \/ Hint \/ Build

MemoSpec == MemoInit /\ [][MemoNext]_vars

(***************************************************************************)
(* CAT: the layers, CAT::from_parent_spend and CAT::spend.                 *)
(***************************************************************************)
None == [some |-> FALSE]

Some(v) == [some |-> TRUE, value |-> v]

\* CAT::new
CAT(coin, asset_id, p2_puzzle_hash, p2_puzzle) ==
    [present |-> TRUE, coin |-> coin, asset_id |-> asset_id,
     p2_puzzle_hash |-> p2_puzzle_hash, p2_puzzle |-> p2_puzzle]

CatSolution(lineage_proof, inner_puzzle_solution, prev_coin_id) ==
    [lineage_proof |-> lineage_proof, inner_puzzle_solution |-> inner_puzzle_solution,
     prev_coin_id |-> prev_coin_id]

TransparentLayer(puzzle_hash, puzzle) == [puzzle_hash |-> puzzle_hash, puzzle |-> puzzle]

CATLayer(asset_id, inner_puzzle) == [asset_id |-> asset_id, inner_puzzle |-> inner_puzzle]

\* get_layered_object that puts the argument before the CAT's own p2 puzzle
get_layered_object_ArgumentFirst(self, p2_puzzle) ==
    CATLayer(self.asset_id,
             TransparentLayer(self.p2_puzzle_hash,
                              IF p2_puzzle.some THEN p2_puzzle ELSE self.p2_puzzle))

\* CAT::get_layered_object: the CAT's own p2 puzzle goes before the argument
get_layered_object(self, p2_puzzle) ==
    CATLayer(self.asset_id,
             TransparentLayer(self.p2_puzzle_hash,
                              IF self.p2_puzzle.some THEN self.p2_puzzle ELSE p2_puzzle))

\* CATLayer::construct_puzzle: the CAT module curried with the asset id and
\* the inner puzzle, which the transparent layer must hold
CATLayer_construct_puzzle(layer) ==
    IF ~layer.inner_puzzle.puzzle.some THEN Err("Custom")
    ELSE [ok |-> TRUE, value |-> CatPuzzle(layer.asset_id, layer.inner_puzzle.puzzle.value)]

\* CATLayer::tree_hash, from the hash the transparent layer carries
CATLayer_tree_hash(layer) == CatHash(layer.asset_id, layer.inner_puzzle.puzzle_hash)

\* CATLayer::lineage_proof_for_child
lineage_proof_for_child(layer, parent_parent_coin_info, parent_amount) ==
    LineageProof(parent_parent_coin_info, layer.inner_puzzle.puzzle_hash, parent_amount)

\* the CreateCoin conditions of an output, by position
CatCreateCoinsOf(out) ==
    {i \in 1..Len(out) : out[i].opcode = CREATE_COIN /\ IsBytes32(out[i].puzzle_hash)}

\* CATLayer::from_parent_spend: None unless the puzzle is a CAT; the child's
\* layer has the asset id of the parent and, as inner puzzle hash, the
\* puzzle hash of the CreateCoin that the parent's inner puzzle emits
CATLayer_from_parent_spend(puzzle, solution) ==
    IF puzzle.mod # "cat" THEN [ok |-> TRUE, some |-> FALSE]
    ELSE IF "inner_puzzle_solution" \notin DOMAIN solution THEN FromClvmErr("ExpectedPair")
    ELSE LET output == RunPuzzle(puzzle.inner_puzzle, solution.inner_puzzle_solution)
             created == CatCreateCoinsOf(output.out)
         IN IF ~output.ok THEN Err("Vm")
            ELSE IF created = {} THEN [ok |-> TRUE, some |-> FALSE]
            ELSE LET first == CHOOSE i \in created : \A j \in created : i <= j
                 IN [ok |-> TRUE, some |-> TRUE,
                     value |-> CATLayer(puzzle.asset_id,
                                        TransparentLayer(output.out[first].puzzle_hash, None))]

\* CAT::from_parent_spend; todo is the value that the name `todo` of the
\* source stands for, which the source does not bind
cat_from_parent_spend(coin_spend, todo) ==
    LET parsed == CATLayer_from_parent_spend(coin_spend.puzzle_reveal, coin_spend.solution)
    IN IF ~parsed.ok THEN parsed
       ELSE IF ~parsed.some THEN [ok |-> TRUE, some |-> FALSE]
       ELSE [ok |-> TRUE, some |-> TRUE,
             value |-> CAT(Coin(CoinId(coin_spend.coin), CATLayer_tree_hash(parsed.value), todo),
                           parsed.value.asset_id,
                           parsed.value.inner_puzzle.puzzle_hash,
                           parsed.value.inner_puzzle.puzzle)]

\* CAT::spend: Ok((coin spend, child, proof)) or an error
cat_spend(self, lineage_proof, inner_spend, todo) ==
    LET thing == get_layered_object(self, Some(inner_spend.puzzle))
        puzzle == CATLayer_construct_puzzle(thing)
    IN IF ~puzzle.ok THEN puzzle
       ELSE LET coin_spend == CoinSpend(self.coin, puzzle.value,
                                        CatSolution(lineage_proof, inner_spend.solution,
                                                    CoinId(self.coin)))
                child == cat_from_parent_spend(coin_spend, todo)
            IN IF ~child.ok THEN child
               ELSE IF ~child.some THEN Err("MissingChild")
               ELSE [ok |-> TRUE, coin_spend |-> coin_spend, child |-> child.value,
                     proof |-> lineage_proof_for_child(thing, self.coin.parent_coin_info, 1)]

(***************************************************************************)
(* The CATs, inner spends and coin spends of the model.                    *)
(***************************************************************************)
MaxCatConds == 2

AssetId == <<"asset_id", "A">>

CatAmounts == {1, 1000}

\* the values `todo` may stand for
TodoAmounts == {0, 1, 1000}

CatCoin(puzzle_hash, amount) == Coin(<<"coin_id", "parent">>, puzzle_hash, amount)

\* the CATs that CAT::new, with_coin and with_p2_puzzle give: the coin's
\* puzzle hash and the p2 puzzle need not fit the other fields
CATs ==
    {CAT(CatCoin(CatHash(AssetId, h), a), AssetId, o, q) :
        h \in OwnerPuzzleHashes, a \in CatAmounts, o \in OwnerPuzzleHashes,
        q \in {None, Some(P2Puzzle("owner")), Some(P2Puzzle("owner2"))}}

CatConditions ==
    {CreateCoin(OwnerPuzzleHash, 1000, <<>>), CreateCoin(Owner2PuzzleHash, 1, <<>>), Remark}

CatInnerSpends ==
    {InnerSpend(p, P2Solution(c)) :
        p \in {P2Puzzle("owner"), P2Puzzle("owner2")},
        c \in SeqsUpTo(CatConditions, MaxCatConds)}
    \cup {InnerSpend(P2Puzzle("owner"), [not_a_solution |-> TRUE])}

CatLineageProofs ==
    {LineageProof(<<"coin_id", "grandparent">>, OwnerPuzzleHash, 1000),
     EveProof(<<"coin_id", "grandparent">>, 1)}

\* coin spends read from the chain: of CATs and of other coins
CatParentSpends ==
    LET proof == LineageProof(<<"coin_id", "grandparent">>, OwnerPuzzleHash, 1000)
        spendOf(amount, puzzle, solution) ==
            CoinSpend(CatCoin(TreeHash(puzzle), amount), puzzle, solution)
    IN {spendOf(a, CatPuzzle(AssetId, P2Puzzle("owner")),
                CatSolution(proof, P2Solution(c),
                            CoinId(CatCoin(CatHash(AssetId, OwnerPuzzleHash), a)))) :
            a \in CatAmounts, c \in SeqsUpTo(CatConditions, MaxCatConds)}
       \cup {spendOf(1000, CatPuzzle(AssetId, P2Puzzle("owner")), P2Solution(<<>>)),
             spendOf(1000, P2Puzzle("owner"),
                     P2Solution(<<CreateCoin(OwnerPuzzleHash, 1000, <<>>)>>)),
             spendOf(1, SingletonPuzzle(<<"coin_id", "launcher">>, P2Puzzle("owner")),
                     P2Solution(<<CreateCoin(OwnerPuzzleHash, 1, <<>>)>>))}

(***************************************************************************)
(* The state machine of a caller that holds a CAT and spends it, or        *)
(* parses the spend of a parent coin.                                      *)
(***************************************************************************)
CatInit == Init

\* CAT::new
CatNew ==
    /\ ~cat.present
    /\ cat_res = NoStore
    /\ cat' \in CATs
    /\ UNCHANGED <<cat_with, cat_out, cat_cs, cat_res>>
    /\ UNCHANGED <<store_vars, memo_vars, ctx_vars, fee_vars>>

\* CAT::spend
CatSpend ==
    /\ cat.present
    /\ cat_out = NoStore
    /\ \E l \in CatLineageProofs, i \in CatInnerSpends, t \in TodoAmounts :
        /\ cat_with' = [present |-> TRUE, lineage_proof |-> l, inner_spend |-> i]
        /\ cat_out' = cat_spend(cat, l, i, t)
    /\ UNCHANGED <<cat, cat_cs, cat_res>>
    /\ UNCHANGED <<store_vars, memo_vars, ctx_vars, fee_vars>>

\* CAT::from_parent_spend
CatParse ==
    /\ ~cat.present
    /\ cat_res = NoStore
    /\ \E c \in CatParentSpends, t \in TodoAmounts :
        /\ cat_cs' = c
        /\ cat_res' = cat_from_parent_spend(c, t)
    /\ UNCHANGED <<cat, cat_with, cat_out>>
    /\ UNCHANGED <<store_vars, memo_vars, ctx_vars, fee_vars>>

CatNext == CatNew \/ CatSpend \/ CatParse

CatSpec == CatInit /\ [][CatNext]_vars

(***************************************************************************)
(* SpendContext: the coin spends it collects.                              *)
(***************************************************************************)
\* SpendContext::insert
ctx_insert(spends, coin_spend) == Append(spends, coin_spend)

\* SpendContext::take: the spends returned and the spends left
ctx_take(spends) == [taken |-> spends, left |-> <<>>]

\* inserting the coin spends of a list from its end
RECURSIVE ctx_insert_all_LastFirst(_, _)
ctx_insert_all_LastFirst(spends, list) ==
    IF list = <<>> THEN spends
    ELSE ctx_insert(ctx_insert_all_LastFirst(spends, Tail(list)), Head(list))

\* inserting the coin spends of a list, one after the other
RECURSIVE ctx_insert_all(_, _)
ctx_insert_all(spends, list) ==
    IF list = <<>> THEN spends
    ELSE ctx_insert_all(ctx_insert(spends, Head(list)), Tail(list))

MaxSpends == 4

\* the coin spends a caller inserts: of standard coins
CallerSpends ==
    {CoinSpend(Coin(<<"coin_id", "parent">>, OwnerPuzzleHash, a), P2Puzzle("owner"),
               P2Solution(<<>>)) : a \in 1..3}

CtxInit == Init

\* ctx.insert(coin_spend)
Insert ==
    /\ Len(ctx_spends) < MaxSpends
    /\ \E c \in CallerSpends :
        /\ ctx_spends' = ctx_insert(ctx_spends, c)
        /\ ctx_log' = Append(ctx_log, c)
    /\ UNCHANGED <<ctx_taken, nft_out>>
    /\ UNCHANGED <<store_vars, memo_vars, cat_vars, fee_vars>>

\* ctx.take()
Take ==
    /\ ctx_spends' = ctx_take(ctx_spends).left
    /\ ctx_taken' = [present |-> TRUE, spends |-> ctx_take(ctx_spends).taken,
                     since |-> ctx_log, reinserted |-> FALSE]
    /\ ctx_log' = <<>>
    /\ UNCHANGED nft_out
    /\ UNCHANGED <<store_vars, memo_vars, cat_vars, fee_vars>>

\* for spend in ctx.take() { ctx.insert(spend) }
TakeAndReinsert ==
    /\ ctx_spends # <<>>
    /\ LET taken == ctx_take(ctx_spends) IN
        /\ ctx_spends' = ctx_insert_all(taken.left, taken.taken)
        /\ ctx_taken' = [present |-> TRUE, spends |-> taken.taken, since |-> ctx_log,
                         reinserted |-> TRUE]
        /\ ctx_log' = taken.taken
    /\ UNCHANGED nft_out
    /\ UNCHANGED <<store_vars, memo_vars, cat_vars, fee_vars>>

CtxNext == Insert \/ Take \/ TakeAndReinsert

CtxSpec == CtxInit /\ [][CtxNext]_vars

(***************************************************************************)
(* The fee memo of an oracle, for every u64.                               *)
(***************************************************************************)
\* the fee memo that get_recreation_memos pushes for DelegatedPuzzle::Oracle
FeeMemo(be) == StripFee(SignedBytesOf(MagnitudeOfU64(be)))

\* the byte values of the model: both sides of the high bit, and the ends
FeeByteValues == {0, 127, 128, 255}

\* oracle_fee: u64, by its bytes
U64Fees == [1..8 -> FeeByteValues]

FeeInit ==
    /\ datastore = NoStore
    /\ spent_with = NoStore
    /\ cs = NoStore
    /\ pdp = <<>>
    /\ res = NoStore
    /\ dsargs = NoStore
    /\ memo_list = NoStore
    /\ rebuilt = NoStore
    /\ cat = NoStore
    /\ cat_with = NoStore
    /\ cat_out = NoStore
    /\ cat_cs = NoStore
    /\ cat_res = NoStore
    /\ ctx_spends = <<>>
    /\ ctx_log = <<>>
    /\ ctx_taken = NoStore
    /\ nft_out = NoStore
    /\ fee_be \in U64Fees
    /\ fee_memo = NoStore

\* get_recreation_memos writes the fee memo
EncodeFee ==
    /\ fee_memo = NoStore
    /\ fee_memo' = [present |-> TRUE, bytes |-> FeeMemo(fee_be)]
    /\ UNCHANGED fee_be
    /\ UNCHANGED <<store_vars, memo_vars, cat_vars, ctx_vars>>

FeeNext == EncodeFee

FeeSpec == FeeInit /\ [][FeeNext]_vars

(***************************************************************************)
(* The driver as a whole: a caller that works on a store and its spends,   *)
(* or hands memos to build_datastore.                                      *)
(***************************************************************************)
DriverInit == Init

\* the caller turns to build_datastore and chooses its arguments
ChooseArgs ==
    /\ ~datastore.present /\ ~cs.present
    /\ dsargs = NoStore
    /\ dsargs' \in BuildArgs
    /\ UNCHANGED <<memo_list, rebuilt>>
    /\ UNCHANGED <<store_vars, cat_vars, ctx_vars, fee_vars>>

DriverNext == (dsargs = NoStore /\ Next) \/ ChooseArgs \/ MemoNext

DriverSpec == DriverInit /\ [][DriverNext]_vars

(***************************************************************************)
(* Launcher::mint_eve_nft and Launcher::mint_nft.                          *)
(***************************************************************************)
\* Launcher::new(parent_coin_id, amount)
Launcher(parent_coin_id, amount) ==
    [coin |-> LauncherCoin(parent_coin_id, amount), conditions |-> <<>>]

AssertCoinAnnouncement(announcement_id) ==
    [kind |-> "assert_coin_announcement", announcement_id |-> announcement_id]

AssertPuzzleAnnouncement(announcement_id) ==
    [kind |-> "assert_puzzle_announcement", announcement_id |-> announcement_id]

\* Condition::Other(ptr)
Other(value) == [kind |-> "other", value |-> value]

\* Launcher::spend: the conditions for the parent, the eve coin, and the
\* spend of the launcher coin that goes into the context
launcher_spend(self, singleton_inner_puzzle_hash, key_value_list) ==
    LET launcher_id == CoinId(self.coin)
        singleton_puzzle_hash == SingletonHash(launcher_id, singleton_inner_puzzle_hash)
        solution == LauncherSolution(singleton_puzzle_hash, self.coin.amount, key_value_list)
    IN [conditions |->
            Append(self.conditions,
                   AssertCoinAnnouncement(<<"announcement_id", launcher_id,
                                            <<"tree_hash", solution>> >>)),
        coin |-> Coin(launcher_id, singleton_puzzle_hash, self.coin.amount),
        inserted |-> CoinSpend(self.coin, OpaquePuzzle("singleton_launcher"), solution)]

\* TransferNft and TransferNft::default()
TransferNft(did_id, trade_prices, did_inner_puzzle_hash) ==
    [did_id |-> did_id, trade_prices |-> trade_prices,
     did_inner_puzzle_hash |-> did_inner_puzzle_hash]

TransferNftDefault == TransferNft(None, <<>>, None)

NftMint(metadata, metadata_updater_puzzle_hash, royalty_puzzle_hash, royalty_ten_thousandths, p2_puzzle_hash, owner) ==
    [metadata |-> metadata, metadata_updater_puzzle_hash |-> metadata_updater_puzzle_hash,
     royalty_puzzle_hash |-> royalty_puzzle_hash,
     royalty_ten_thousandths |-> royalty_ten_thousandths,
     p2_puzzle_hash |-> p2_puzzle_hash, owner |-> owner]

\* ctx.tree_hash(metadata_ptr): metadata that is kept as its hash
HashedMetadata(metadata) == <<"hashed", metadata>>

\* the tree hash of metadata, kept as a value or as its hash
NftMetadataHash(metadata) ==
    IF metadata[1] = "hashed" THEN <<"tree_hash", metadata[2]>>
    ELSE <<"tree_hash", metadata>>

NftInfo_new(launcher_id, metadata, metadata_updater_puzzle_hash, current_owner, royalty_puzzle_hash, royalty_ten_thousandths, p2_puzzle_hash) ==
    [launcher_id |-> launcher_id, metadata |-> metadata,
     metadata_updater_puzzle_hash |-> metadata_updater_puzzle_hash,
     current_owner |-> current_owner, royalty_puzzle_hash |-> royalty_puzzle_hash,
     royalty_ten_thousandths |-> royalty_ten_thousandths,
     p2_puzzle_hash |-> p2_puzzle_hash]

\* NftInfo::inner_puzzle_hash: state layer over ownership layer over p2
NftInfo_inner_puzzle_hash(nft_info) ==
    NftStateHash(NftMetadataHash(nft_info.metadata), nft_info.metadata_updater_puzzle_hash,
                 <<"nft_ownership", nft_info.current_owner,
                   <<"nft_royalty", nft_info.launcher_id, nft_info.royalty_puzzle_hash,
                     nft_info.royalty_ten_thousandths>>,
                   nft_info.p2_puzzle_hash>>)

\* NftInfo::with_metadata
NftInfo_with_metadata(nft_info, metadata) == [nft_info EXCEPT !.metadata = metadata]

\* Nft::new
Nft(coin, proof, nft_info) == [coin |-> coin, proof |-> proof, info |-> nft_info]

\* Nft::with_metadata, Nft::with_hashed_metadata
Nft_with_metadata(self, metadata) ==
    [self EXCEPT !.info = NftInfo_with_metadata(self.info, metadata)]

Nft_with_hashed_metadata(self) ==
    Nft_with_metadata(self, IF self.info.metadata[1] = "hashed" THEN self.info.metadata
                            ELSE HashedMetadata(self.info.metadata))

\* Nft::spend: the coin spend of the NFT with the inner spend
Nft_spend(self, inner_spend) ==
    CoinSpend(self.coin,
              [mod |-> "nft", info |-> Nft_with_hashed_metadata(self).info,
               inner_puzzle |-> inner_spend.puzzle],
              SingletonSolution(self.proof, self.coin.amount, inner_spend.solution))

\* Nft::create_child
Nft_create_child(self, p2_puzzle_hash, new_owner) ==
    LET child_info ==
            [self.info EXCEPT !.p2_puzzle_hash = p2_puzzle_hash,
                              !.current_owner = IF new_owner.some THEN new_owner.value
                                                ELSE self.info.current_owner]
    IN Nft(Coin(CoinId(self.coin),
                SingletonHash(self.info.launcher_id, NftInfo_inner_puzzle_hash(child_info)),
                self.coin.amount),
           LineageProof(self.coin.parent_coin_info, NftInfo_inner_puzzle_hash(self.info),
                        self.coin.amount),
           child_info)

\* did_puzzle_assertion(nft_full_puzzle_hash, new_nft_owner)
did_puzzle_assertion(nft_full_puzzle_hash, new_nft_owner) ==
    <<"announcement_id", nft_full_puzzle_hash,
      <<new_nft_owner.did_id, new_nft_owner.trade_prices,
        new_nft_owner.did_inner_puzzle_hash>> >>

\* clvm_quote!(conditions) and its tree hash
QuotePuzzle(conditions) == [mod |-> "quote", conditions |-> conditions]

QuoteHash(puzzle) == <<"tree_hash", puzzle>>

\* mint_eve_nft with the proof taken from the eve coin, not from the launcher coin
mint_eve_nft_ProofOfEveCoin(self, p2_puzzle_hash, metadata, metadata_updater_puzzle_hash, royalty_puzzle_hash, royalty_ten_thousandths) ==
    LET launcher_coin == self.coin
        nft_info == NftInfo_new(CoinId(launcher_coin), HashedMetadata(metadata),
                                metadata_updater_puzzle_hash, None, royalty_puzzle_hash,
                                royalty_ten_thousandths, p2_puzzle_hash)
        launched == launcher_spend(self, NftInfo_inner_puzzle_hash(nft_info), <<>>)
        proof == EveProof(launched.coin.parent_coin_info, launched.coin.amount)
    IN [conditions |-> Append(launched.conditions,
                              CreatePuzzleAnnouncement(CoinId(launcher_coin))),
        nft |-> Nft(launched.coin, proof, NftInfo_with_metadata(nft_info, metadata)),
        inserted |-> <<launched.inserted>>]

\* Launcher::mint_eve_nft: the conditions, the NFT, and the coin spends that
\* went into the context
mint_eve_nft(self, p2_puzzle_hash, metadata, metadata_updater_puzzle_hash, royalty_puzzle_hash, royalty_ten_thousandths) ==
    LET launcher_coin == self.coin
        nft_info == NftInfo_new(CoinId(launcher_coin), HashedMetadata(metadata),
                                metadata_updater_puzzle_hash, None, royalty_puzzle_hash,
                                royalty_ten_thousandths, p2_puzzle_hash)
        launched == launcher_spend(self, NftInfo_inner_puzzle_hash(nft_info), <<>>)
        proof == EveProof(launcher_coin.parent_coin_info, launcher_coin.amount)
    IN [conditions |-> Append(launched.conditions,
                              CreatePuzzleAnnouncement(CoinId(launcher_coin))),
        nft |-> Nft(launched.coin, proof, NftInfo_with_metadata(nft_info, metadata)),
        inserted |-> <<launched.inserted>>]

\* mint_nft that returns the child with the hashed metadata
mint_nft_HashedMetadata(self, mint) ==
    LET conditions ==
            <<CreateCoin(mint.p2_puzzle_hash, 1, <<mint.p2_puzzle_hash>>)>>
            \o (IF mint.owner # TransferNftDefault THEN <<Other(mint.owner)>> ELSE <<>>)
        inner_puzzle == QuotePuzzle(conditions)
        p2_puzzle_hash == QuoteHash(inner_puzzle)
        inner_spend == InnerSpend(inner_puzzle, NilAtom)
        eve == mint_eve_nft(self, p2_puzzle_hash, mint.metadata,
                            mint.metadata_updater_puzzle_hash, mint.royalty_puzzle_hash,
                            mint.royalty_ten_thousandths)
        eve_nft == eve.nft
        eve_spend == Nft_spend(eve_nft, inner_spend)
        did_conditions ==
            IF mint.owner # TransferNftDefault
            THEN <<AssertPuzzleAnnouncement(
                       did_puzzle_assertion(eve_nft.coin.puzzle_hash, mint.owner))>>
            ELSE <<>>
        hashed_eve == Nft_with_hashed_metadata(eve_nft)
        child == Nft_create_child(hashed_eve, mint.p2_puzzle_hash, Some(mint.owner.did_id))
    IN [conditions |-> eve.conditions \o did_conditions,
        nft |-> child,
        inserted |-> Append(eve.inserted, eve_spend)]

\* Launcher::mint_nft
mint_nft(self, mint) ==
    LET conditions ==
            <<CreateCoin(mint.p2_puzzle_hash, 1, <<mint.p2_puzzle_hash>>)>>
            \o (IF mint.owner # TransferNftDefault THEN <<Other(mint.owner)>> ELSE <<>>)
        inner_puzzle == QuotePuzzle(conditions)
        p2_puzzle_hash == QuoteHash(inner_puzzle)
        inner_spend == InnerSpend(inner_puzzle, NilAtom)
        eve == mint_eve_nft(self, p2_puzzle_hash, mint.metadata,
                            mint.metadata_updater_puzzle_hash, mint.royalty_puzzle_hash,
                            mint.royalty_ten_thousandths)
        eve_nft == eve.nft
        eve_spend == Nft_spend(eve_nft, inner_spend)
        did_conditions ==
            IF mint.owner # TransferNftDefault
            THEN <<AssertPuzzleAnnouncement(
                       did_puzzle_assertion(eve_nft.coin.puzzle_hash, mint.owner))>>
            ELSE <<>>
        hashed_eve == Nft_with_hashed_metadata(eve_nft)
        child == Nft_create_child(hashed_eve, mint.p2_puzzle_hash, Some(mint.owner.did_id))
    IN [conditions |-> eve.conditions \o did_conditions,
        nft |-> Nft_with_metadata(child, eve_nft.info.metadata),
        inserted |-> Append(eve.inserted, eve_spend)]

\* the launchers, and the mints of the tests
Launchers == {Launcher(GenesisCoinId, a) : a \in {1, 3}}

NftMetadata1 == <<"nft_metadata", 1>>

NFT_METADATA_UPDATER_PUZZLE_HASH == <<"nft_metadata_updater">>

RoyaltyPuzzleHash == <<"royalty_puzzle_hash">>

ROYALTY_TEN_THOUSANDTHS == 300

DidId == <<"coin_id", "did_launcher">>

NftOwners ==
    {TransferNftDefault,
     TransferNft(Some(DidId), <<>>, Some(<<"did_inner">>)),
     TransferNft(None, <<>>, Some(<<"did_inner">>))}

NftMints ==
    {NftMint(NftMetadata1, NFT_METADATA_UPDATER_PUZZLE_HASH, RoyaltyPuzzleHash, ROYALTY_TEN_THOUSANDTHS, h, o) :
        h \in OwnerPuzzleHashes, o \in NftOwners}

NftInit == Init

\* launcher.mint_eve_nft(ctx, ..)
MintEveNft ==
    /\ Len(ctx_spends) + 1 <= MaxSpends
    /\ \E l \in Launchers, h \in OwnerPuzzleHashes :
        LET out == mint_eve_nft(l, h, NftMetadata1, NFT_METADATA_UPDATER_PUZZLE_HASH,
                                RoyaltyPuzzleHash, ROYALTY_TEN_THOUSANDTHS)
        IN /\ ctx_spends' = ctx_insert_all(ctx_spends, out.inserted)
           /\ ctx_log' = ctx_log \o out.inserted
           /\ nft_out' = [present |-> TRUE, call |-> "mint_eve_nft", launcher |-> l,
                          p2_puzzle_hash |-> h, conditions |-> out.conditions,
                          nft |-> out.nft, at |-> Len(ctx_spends)]
    /\ UNCHANGED ctx_taken
    /\ UNCHANGED <<store_vars, memo_vars, cat_vars, fee_vars>>

\* launcher.mint_nft(ctx, mint)
MintNft ==
    /\ Len(ctx_spends) + 2 <= MaxSpends
    /\ \E l \in Launchers, mint \in NftMints :
        LET out == mint_nft(l, mint)
        IN /\ ctx_spends' = ctx_insert_all(ctx_spends, out.inserted)
           /\ ctx_log' = ctx_log \o out.inserted
           /\ nft_out' = [present |-> TRUE, call |-> "mint_nft", launcher |-> l,
                          mint |-> mint, conditions |-> out.conditions,
                          nft |-> out.nft, at |-> Len(ctx_spends)]
    /\ UNCHANGED ctx_taken
    /\ UNCHANGED <<store_vars, memo_vars, cat_vars, fee_vars>>

NftNext == Insert \/ MintEveNft \/ MintNft

NftSpec == NftInit /\ [][NftNext]_vars

(***************************************************************************)
(* What the states say about the spend in cs and its parse in res.         *)
(***************************************************************************)
\* cs is the launcher spend that minted datastore
Minted == datastore.present /\ ~spent_with.present /\ cs.present

\* cs is datastore.spend(spent_with)
Spent == datastore.present /\ spent_with.present /\ cs.present

\* res is from_spend(cs, pdp)
Parsed == res # NoStore

\* cs spends a store: no launcher coin, a singleton over a state layer, and
\* a singleton solution
IsStoreSpend ==
    /\ cs.present
    /\ cs.coin.puzzle_hash # SINGLETON_LAUNCHER_PUZZLE_HASH
    /\ cs.puzzle_reveal.mod = "singleton"
    /\ cs.puzzle_reveal.inner_puzzle.mod = "nft_state"
    /\ "inner_solution" \in DOMAIN cs.solution

ParentStateLayer == cs.puzzle_reveal.inner_puzzle

ParentInnerPuzzle == ParentStateLayer.inner_puzzle

\* the output of the puzzle under the parent's state layer
InnerOutput == RunPuzzle(ParentInnerPuzzle, cs.solution.inner_solution)

\* the positions of the odd-amount CreateCoin conditions of an output
OddCreateCoins(out) ==
    {i \in 1..Len(out) :
        /\ out[i].opcode = 51
        /\ IsBytes32(out[i].puzzle_hash)
        /\ out[i].amount >= 0
        /\ out[i].amount % 2 = 1}

NewMetadatas(out) == {i \in 1..Len(out) : out[i].opcode = -24}

MaxOf(S) == CHOOSE i \in S : \A j \in S : j <= i

MinOf(S) == CHOOSE i \in S : \A j \in S : i <= j

\* the spend ran and recreates the singleton
Recreates == IsStoreSpend /\ InnerOutput.ok /\ OddCreateCoins(InnerOutput.out) # {}

\* the recreating CreateCoin: the last one of odd amount
Recreating == InnerOutput.out[MaxOf(OddCreateCoins(InnerOutput.out))]

\* the delegated puzzle lists that the memos of the model's conditions encode
HintedLists ==
    {<<>>, <<AdminDelegatedPuzzle>>, <<AdminDelegatedPuzzle, OracleDelegatedPuzzle>>,
     AllDelegated}

\* the memos are those of get_recreation_memos for this launcher id
ProtocolMemos(memos, launcher_id) ==
    \E o \in OwnerPuzzleHashes, d \in HintedLists :
        memos = get_recreation_memos(launcher_id, o, d)

(***************************************************************************)
(* C1                                                                      *)
(***************************************************************************)
\* the output of the inner spend's own puzzle
OwnOutput == RunPuzzle(spent_with.puzzle, spent_with.solution)

\* the inner spend's puzzle is a delegated puzzle of the store
IsDelegatedSpend ==
    \E i \in 1..Len(datastore.info.delegated_puzzles) :
        LeafHash(datastore.info.delegated_puzzles[i]) = TreeHash(spent_with.puzzle)

\* the inner spend is valid: its puzzle is the owner's or a delegated one
\* and runs, the spend emits an odd-amount CreateCoin (its own, or the one
\* the delegation layer adds for a delegated puzzle), and the memos it gives
\* are at most one or those of the memo protocol
ValidInnerSpend ==
    /\ Spent
    /\ \/ TreeHash(spent_with.puzzle) = datastore.info.owner_puzzle_hash
       \/ IsDelegatedSpend
    /\ OwnOutput.ok
    /\ IsDelegatedSpend \/ OddCreateCoins(OwnOutput.out) # {}
    /\ \A i \in 1..Len(OwnOutput.out) :
        "memos" \in DOMAIN OwnOutput.out[i]
            => \/ Len(OwnOutput.out[i].memos) <= 1
               \/ ProtocolMemos(OwnOutput.out[i].memos, datastore.info.launcher_id)

C2_LaunchRoundTrip ==
    (Minted /\ Parsed) => res.ok /\ res.some /\ res.value = datastore

\* a store minted with delegated puzzles, parsed with another list
C2_Witness ==
    /\ Minted /\ Parsed
    /\ datastore.info.delegated_puzzles = AllDelegated
    /\ pdp = <<WriterDelegatedPuzzle>>
    /\ res.ok /\ res.some /\ res.value = datastore

(***************************************************************************)
(* C3                                                                      *)
(***************************************************************************)
\* the recreating CreateCoin carries more than one memo
MemoCase == Recreates /\ Len(Recreating.memos) > 1

\* C3: memo path. When the recreating odd-amount CreateCoin carries more
\* than one memo, the owner and the delegated puzzles are the ones its memos
\* encode, a memo list that does not start with the launcher id is
\* InvalidMemo, and the result is the same for every
\* parent_delegated_puzzles.
C3_MemoPath ==
    (MemoCase /\ Parsed)
        => /\ \A q \in ParentDelegatedLists : from_spend(cs, q) = res
           /\ \A o \in OwnerPuzzleHashes, d \in HintedLists :
                Recreating.memos = get_recreation_memos(cs.puzzle_reveal.launcher_id, o, d)
                    => /\ res.ok /\ res.some
                       /\ res.value.info.owner_puzzle_hash = o
                       /\ res.value.info.delegated_puzzles = d
           /\ Recreating.memos[1] # cs.puzzle_reveal.launcher_id
                    => res = Err("InvalidMemo")

\* a store with delegated puzzles whose owner hints a new owner and a new
\* list, parsed with the parent's list
C3_Witness ==
    /\ MemoCase /\ Parsed /\ Spent
    /\ ParentInnerPuzzle.mod = "delegation"
    /\ pdp = AllDelegated
    /\ res.ok /\ res.some
    /\ res.value.info.owner_puzzle_hash = Owner2PuzzleHash
    /\ res.value.info.delegated_puzzles = <<AdminDelegatedPuzzle>>

(***************************************************************************)
(* C4                                                                      *)
(***************************************************************************)
\* the output of the puzzle revealed to the delegation layer
RevealedOutput ==
    RunPuzzle(cs.solution.inner_solution.puzzle_reveal,
              cs.solution.inner_solution.puzzle_solution)

\* the parent has a delegation layer and the recreating CreateCoin carries
\* at most one memo
DelegationCase ==
    /\ Recreates
    /\ ParentInnerPuzzle.mod = "delegation"
    /\ Len(Recreating.memos) <= 1

\* the first odd-amount CreateCoin of the revealed puzzle's own output
RevealedOdd == RevealedOutput.out[MinOf(OddCreateCoins(RevealedOutput.out))]

ParentDelegationHash ==
    DelegationHash(ParentInnerPuzzle.launcher_id, ParentInnerPuzzle.owner_puzzle_hash,
                   ParentInnerPuzzle.merkle_root)

\* the revealed puzzle's own output has no odd-amount CreateCoin, or its
\* first one pays to the parent's delegation layer
Stays ==
    \/ OddCreateCoins(RevealedOutput.out) = {}
    \/ RevealedOdd.puzzle_hash = ParentDelegationHash

\* C4: delegation stay. When the parent's inner puzzle is a delegation
\* layer, the recreating CreateCoin has at most one memo, and the revealed
\* puzzle's own output has no odd-amount CreateCoin or its odd-amount
\* CreateCoin pays to the tree hash of the parent's delegation layer, the
\* result has delegated_puzzles = parent_delegated_puzzles and the owner
\* puzzle hash curried into that layer.
C4_DelegationStay ==
    (DelegationCase /\ Parsed /\ Stays)
        => /\ res.ok /\ res.some
           /\ res.value.info.delegated_puzzles = pdp
           /\ res.value.info.owner_puzzle_hash = ParentInnerPuzzle.owner_puzzle_hash

\* the owner recreates the layer without a hint, and the list of the caller
\* is taken over
C4_Witness ==
    /\ DelegationCase /\ Parsed /\ Spent
    /\ OddCreateCoins(RevealedOutput.out) # {}
    /\ RevealedOdd.puzzle_hash = ParentDelegationHash
    /\ pdp = <<WriterDelegatedPuzzle>>
    /\ res.ok /\ res.some
    /\ res.value.info.delegated_puzzles = <<WriterDelegatedPuzzle>>
    /\ res.value.info.owner_puzzle_hash = datastore.info.owner_puzzle_hash

(***************************************************************************)
(* C5                                                                      *)
(***************************************************************************)
\* C5: owner exit. In the same setting, when the revealed puzzle's own
\* output has an odd-amount CreateCoin whose puzzle hash is not the tree
\* hash of the delegation layer, the result has no delegated puzzles and
\* that CreateCoin's puzzle hash as owner.
C5_OwnerExit ==
    (DelegationCase /\ Parsed /\ ~Stays)
        => /\ res.ok /\ res.some
           /\ res.value.info.delegated_puzzles = <<>>
           /\ res.value.info.owner_puzzle_hash = RevealedOdd.puzzle_hash

\* the owner pays the store to another owner, and the list of the caller is
\* dropped
C5_Witness ==
    /\ DelegationCase /\ Parsed /\ Spent /\ ~Stays
    /\ pdp = AllDelegated
    /\ datastore.info.owner_puzzle_hash = OwnerPuzzleHash
    /\ res.ok /\ res.some
    /\ res.value.info.delegated_puzzles = <<>>
    /\ res.value.info.owner_puzzle_hash = Owner2PuzzleHash

(***************************************************************************)
(* C6                                                                      *)
(***************************************************************************)
\* the parent has no delegation layer and the recreating CreateCoin carries
\* at most one memo
VanillaCase ==
    /\ Recreates
    /\ ParentInnerPuzzle.mod # "delegation"
    /\ Len(Recreating.memos) <= 1

\* C6: vanilla. When the parent's inner puzzle is no delegation layer and
\* the recreating CreateCoin has at most one memo, the result has no
\* delegated puzzles, for every parent_delegated_puzzles.
C6_Vanilla ==
    (VanillaCase /\ Parsed)
        => /\ res.ok /\ res.some
           /\ res.value.info.delegated_puzzles = <<>>

\* a store without delegated puzzles, parsed with a list that is not empty
C6_Witness ==
    /\ VanillaCase /\ Parsed /\ Spent
    /\ datastore.info.delegated_puzzles = <<>>
    /\ pdp = AllDelegated
    /\ res.ok /\ res.some
    /\ res.value.info.delegated_puzzles = <<>>

(***************************************************************************)
(* C7                                                                      *)
(***************************************************************************)
\* C7: destruction. When the output of the spend has no odd-amount
\* CreateCoin, the melt (51 () -113) alone included, from_spend is
\* Err(MissingChild); with at least one odd-amount CreateCoin it is never
\* MissingChild.
C7_Destruction ==
    (IsStoreSpend /\ InnerOutput.ok /\ Parsed)
        => (OddCreateCoins(InnerOutput.out) = {} <=> res = Err("MissingChild"))

\* the owner melts the store
C7_Witness ==
    /\ IsStoreSpend /\ Parsed /\ Spent
    /\ InnerOutput.ok
    /\ InnerOutput.out = <<MeltSingleton>>
    /\ res = Err("MissingChild")

(***************************************************************************)
(* C8                                                                      *)
(***************************************************************************)
\* the coin is no launcher, and its puzzle is no singleton or the
\* singleton's inner puzzle is no state layer
Unrecognized ==
    /\ cs.present
    /\ cs.coin.puzzle_hash # SINGLETON_LAUNCHER_PUZZLE_HASH
    /\ \/ cs.puzzle_reveal.mod # "singleton"
       \/ cs.puzzle_reveal.inner_puzzle.mod # "nft_state"

\* C8: unrecognized spends. For a coin that is no launcher whose puzzle
\* does not parse as a singleton, or whose singleton inner puzzle does not
\* parse as a state layer, from_spend is Ok(None) and no puzzle was run.
C8_Unrecognized ==
    (Unrecognized /\ Parsed) => res.ok /\ ~res.some /\ res.runs = 0

\* a singleton that holds something else than a store
C8_Witness ==
    /\ Unrecognized /\ Parsed
    /\ cs.puzzle_reveal.mod = "singleton"
    /\ res.ok /\ ~res.some

(***************************************************************************)
(* C9                                                                      *)
(***************************************************************************)
\* from_spend returned a successor of the store that cs spends
Succeeded == IsStoreSpend /\ Parsed /\ res.ok /\ res.some

\* C9: successor coin. On all exits of the non-launcher branch the coin of
\* the result has coin_id(spent coin) as parent, the amount of the selected
\* odd-amount CreateCoin, and the puzzle hash of Singleton(launcher_id,
\* NftState(new_metadata, the parent's updater puzzle hash,
\* the CreateCoin's puzzle hash)).
C9_SuccessorCoin ==
    Succeeded
        => /\ res.path \in {"memos", "injected", "recreated", "exit", "vanilla"}
           /\ res.value.coin.parent_coin_info = CoinId(cs.coin)
           /\ res.value.coin.amount = Recreating.amount
           /\ res.value.coin.puzzle_hash =
                SingletonHash(cs.puzzle_reveal.launcher_id,
                    NftStateHash(MetadataHash(res.value.info.metadata),
                                 ParentStateLayer.metadata_updater_puzzle_hash,
                                 Recreating.puzzle_hash))

\* a coin of amount 1 whose successor has amount 3 and a new metadata
C9_Witness ==
    /\ Succeeded /\ Spent
    /\ res.path = "exit"
    /\ cs.coin.amount = 1
    /\ res.value.coin.amount = 3
    /\ res.value.info.metadata # datastore.info.metadata
    /\ res.value.coin.parent_coin_info = CoinId(datastore.coin)

(***************************************************************************)
(* C10                                                                     *)
(***************************************************************************)
\* the new_metadata that a NewMetadata condition carries
CarriedMetadata(c) == c.metadata_updater_solution.metadata_part.new_metadata

\* C10: metadata frame. The metadata of the successor is the parent's
\* metadata unless the output has a NewMetadata condition (-24); then it is
\* the new_metadata which that condition carries.
C10_MetadataFrame ==
    Succeeded
        => IF NewMetadatas(InnerOutput.out) = {}
           THEN res.value.info.metadata = ParentStateLayer.metadata
           ELSE res.value.info.metadata =
                    CarriedMetadata(InnerOutput.out[MaxOf(NewMetadatas(InnerOutput.out))])

\* a delegated puzzle of the store updates the metadata
C10_Witness ==
    /\ Succeeded /\ Spent
    /\ spent_with.puzzle = WriterPuzzle(P2Puzzle("writer"))
    /\ NewMetadatas(InnerOutput.out) # {}
    /\ datastore.info.metadata = Metadata1
    /\ res.value.info.metadata = Metadata2

(***************************************************************************)
(* C11                                                                     *)
(***************************************************************************)
\* build_datastore was applied to memos that get_recreation_memos wrote
Recreated == memo_list.present /\ memo_list.from = "get_recreation_memos" /\ rebuilt # NoStore

\* C11: memo round-trip. For every launcher id, owner puzzle hash, metadata
\* and non-empty list of delegated puzzles, build_datastore applied to
\* get_recreation_memos(launcher_id, owner, delegated_puzzles) is Ok with
\* the same launcher id, the same owner and the same delegated puzzles in
\* the same order, also when the owner hash is the root hash of the
\* metadata.
C11_MemoRoundTrip ==
    (Recreated /\ memo_list.delegated_puzzles # <<>>)
        => /\ rebuilt.ok
           /\ rebuilt.value.info.launcher_id = dsargs.launcher_id
           /\ rebuilt.value.info.owner_puzzle_hash = memo_list.owner_puzzle_hash
           /\ rebuilt.value.info.delegated_puzzles = memo_list.delegated_puzzles

\* the owner hash is the root hash, and the list has an oracle whose fee
\* takes a leading zero byte
C11_Witness ==
    /\ Recreated
    /\ memo_list.owner_puzzle_hash = dsargs.metadata.root_hash
    /\ memo_list.delegated_puzzles = <<Oracle(<<"oracle_address">>, 128), AdminDelegatedPuzzle>>
    /\ rebuilt.ok
    /\ rebuilt.value.info.owner_puzzle_hash = dsargs.metadata.root_hash
    /\ rebuilt.value.info.delegated_puzzles = memo_list.delegated_puzzles

(***************************************************************************)
(* C12                                                                     *)
(***************************************************************************)
\* cs spends a launcher coin with a launcher solution
IsLauncherSpend ==
    /\ cs.present
    /\ cs.coin.puzzle_hash = SINGLETON_LAUNCHER_PUZZLE_HASH
    /\ "key_value_list" \in DOMAIN cs.solution

LauncherKV == cs.solution.key_value_list

\* the key-value list is one of the modern format
ModernLaunch ==
    /\ IsLauncherSpend
    /\ LauncherKV.form = "modern"
    /\ IsBytes32(LauncherKV.state_layer_inner_puzzle_hash)

\* the key-value list is one of the old format
LegacyLaunch ==
    /\ IsLauncherSpend
    /\ LauncherKV.form = "legacy"
    /\ IsBytes32(LauncherKV.root_hash)
    /\ IsBytes32(LauncherKV.state_layer_inner_puzzle_hash)

\* the spend whose key-value list is the modern form of the old one in cs
ModernFormOfSpend ==
    CoinSpend(cs.coin, cs.puzzle_reveal,
              LauncherSolution(cs.solution.singleton_puzzle_hash, cs.solution.amount,
                  DLLauncherKVList(RootHashOnly(LauncherKV.root_hash),
                                   LauncherKV.state_layer_inner_puzzle_hash,
                                   LauncherKV.memos)))

\* two results of from_spend or build_datastore that return the same
\* DataStore or the same error
SameOutcome(r1, r2) ==
    /\ r1.ok = r2.ok
    /\ r1.ok => r1.value = r2.value
    /\ ~r1.ok => r1.err = r2.err

\* C12: legacy launch equivalence. from_spend on a launcher solution with
\* an OldDLLauncherKVList (root_hash, inner_puzzle_hash, memos) returns the
\* same DataStore as from_spend on the DLLauncherKVList with metadata
\* root_hash_only(root_hash), the same inner puzzle hash and the same memos.
C12_LegacyLaunchEquivalence ==
    (LegacyLaunch /\ Parsed) => SameOutcome(res, from_spend(ModernFormOfSpend, pdp))

(***************************************************************************)
(* C13                                                                     *)
(***************************************************************************)
\* what build_datastore returns for the launcher id followed by the memos
\* of the key-value list
BuiltWithLauncherId ==
    LET launcher_id == CoinId(cs.coin) IN
    build_datastore(Coin(launcher_id, cs.solution.singleton_puzzle_hash, cs.solution.amount),
                    launcher_id,
                    EveProof(cs.coin.parent_coin_info, cs.coin.amount),
                    IF LauncherKV.form = "modern" THEN LauncherKV.metadata
                    ELSE RootHashOnly(LauncherKV.root_hash),
                    LauncherKV.state_layer_inner_puzzle_hash,
                    <<launcher_id>> \o LauncherKV.memos)

\* C13: the launcher id memo is prepended on the launcher path. Whether
\* the key-value list decodes in the modern or, after ExpectedPair, in the
\* old form, build_datastore is handed the launcher id followed by the memos
\* of the key-value list.
C13_LauncherIdPrepended ==
    ((ModernLaunch \/ LegacyLaunch) /\ Parsed) => SameOutcome(res, BuiltWithLauncherId)

(***************************************************************************)
(* C14                                                                     *)
(***************************************************************************)
\* the result is an error of build_datastore, as it returns it
IsBuildError(r) == ~r.ok /\ DOMAIN r = {"ok", "err"} /\ r.err \in {"InvalidMemo", "MissingMemo"}

\* C14: only ExpectedPair is recovered. On a launcher spend the old format
\* is tried exactly when the modern decode fails with ExpectedPair; another
\* error of the modern decode is returned as FromClvm without a retry, and
\* an error of the old decode or of build_datastore is returned unchanged.
C14_OnlyExpectedPairRecovered ==
    (IsLauncherSpend /\ Parsed)
        => CASE LauncherKV.form = "modern" ->
                    IF IsBytes32(LauncherKV.state_layer_inner_puzzle_hash)
                    THEN IF res.ok THEN res.path = "launcher" ELSE IsBuildError(res)
                    ELSE res = FromClvmErr("WrongAtomLength")
             [] LauncherKV.form = "legacy" ->
                    IF /\ IsBytes32(LauncherKV.root_hash)
                       /\ IsBytes32(LauncherKV.state_layer_inner_puzzle_hash)
                    THEN IF res.ok THEN res.path = "launcher_legacy" ELSE IsBuildError(res)
                    ELSE res = FromClvmErr("WrongAtomLength")
             [] LauncherKV.form = "atom" -> res = FromClvmErr("ExpectedPair")

\* a modern key-value list whose inner puzzle hash is too short: the error
\* of the modern decode comes back
C14_Witness ==
    /\ IsLauncherSpend /\ Parsed
    /\ LauncherKV.form = "modern"
    /\ ~IsBytes32(LauncherKV.state_layer_inner_puzzle_hash)
    /\ res = FromClvmErr("WrongAtomLength")

(***************************************************************************)
(* C15                                                                     *)
(***************************************************************************)
\* build_datastore was applied to memos read from the chain
Decoded == memo_list.present /\ memo_list.from = "chain" /\ rebuilt # NoStore

\* the memos after the launcher id are those of the old format: the root
\* hash of the metadata and one more memo
OldLayout(l) == Len(l) = 3 /\ l[2] = dsargs.metadata.root_hash

\* C15: build_datastore rejects malformed memos. For a non-empty memo list
\* it is Err(InvalidMemo) when the first memo is not the launcher id, and
\* when the memo read as the owner puzzle hash (the second, or the third in
\* the old format) is not 32 bytes long.
C15_InvalidMemo ==
    (Decoded /\ memo_list.list # <<>>)
        => LET l == memo_list.list IN
           /\ l[1] # dsargs.launcher_id => rebuilt = Err("InvalidMemo")
           /\ (l[1] = dsargs.launcher_id /\ OldLayout(l) /\ ~IsBytes32(l[3]))
                => rebuilt = Err("InvalidMemo")
           /\ (l[1] = dsargs.launcher_id /\ Len(l) >= 2 /\ ~OldLayout(l) /\ ~IsBytes32(l[2]))
                => rebuilt = Err("InvalidMemo")

\* the old format with an owner memo of one byte
C15_Witness ==
    /\ Decoded
    /\ memo_list.list = <<dsargs.launcher_id, dsargs.metadata.root_hash, BytesOf(<<7>>)>>
    /\ rebuilt = Err("InvalidMemo")

(***************************************************************************)
(* C16                                                                     *)
(***************************************************************************)
\* the start of the memos of a delegated puzzle, with the rest missing
TruncatedEntry(l) ==
    \/ Len(l) = 1 /\ l[1] \in {HintByte("Admin"), HintByte("Writer"), HintByte("Oracle")}
    \/ Len(l) = 2 /\ l[1] = HintByte("Oracle") /\ IsBytes32(l[2])

\* C16: build_datastore reports MissingMemo for a truncated memo list. A
\* list that ends within the memos of a delegated puzzle, as
\* [launcher_id, owner_puzzle_hash, kind_byte], gives Err(MissingMemo) and
\* not Ok with the incomplete entry dropped.
C16_TruncatedIsMissingMemo ==
    (Decoded /\ Len(memo_list.list) >= 3)
        => LET l == memo_list.list IN
           (/\ l[1] = dsargs.launcher_id
            /\ IsBytes32(l[2])
            /\ ~OldLayout(l)
            /\ TruncatedEntry(SubSeq(l, 3, Len(l))))
                => rebuilt = Err("MissingMemo")

(***************************************************************************)
(* C17                                                                     *)
(***************************************************************************)
\* the result is Ok with the arguments beside the memos unchanged
KeepsArguments ==
    /\ rebuilt.ok
    /\ rebuilt.value.coin = dsargs.coin
    /\ rebuilt.value.proof = dsargs.proof
    /\ rebuilt.value.info.launcher_id = dsargs.launcher_id
    /\ rebuilt.value.info.metadata = dsargs.metadata

\* C17: build_datastore accepts the legacy layouts. No memos and
\* [launcher_id] give the fallback owner and no delegated puzzles;
\* [launcher_id, root_hash, owner_ph] with the root hash of the metadata
\* gives owner_ph and no delegated puzzles; coin, proof, launcher id and
\* metadata are returned unchanged.
C17_LegacyLayouts ==
    Decoded
        => LET l == memo_list.list IN
           /\ (l = <<>> \/ l = <<dsargs.launcher_id>>)
                => /\ KeepsArguments
                   /\ rebuilt.value.info.owner_puzzle_hash = dsargs.fallback_owner_ph
                   /\ rebuilt.value.info.delegated_puzzles = <<>>
           /\ (Len(l) = 3 /\ l[1] = dsargs.launcher_id /\ OldLayout(l) /\ IsBytes32(l[3]))
                => /\ KeepsArguments
                   /\ rebuilt.value.info.owner_puzzle_hash = l[3]
                   /\ rebuilt.value.info.delegated_puzzles = <<>>

\* the old format, with an owner that is not the fallback owner
C17_Witness ==
    /\ Decoded
    /\ memo_list.list = <<dsargs.launcher_id, dsargs.metadata.root_hash, OwnerPuzzleHash>>
    /\ dsargs.fallback_owner_ph # OwnerPuzzleHash
    /\ KeepsArguments
    /\ rebuilt.value.info.owner_puzzle_hash = OwnerPuzzleHash

(***************************************************************************)
(* C18                                                                     *)
(***************************************************************************)
\* C18: DataStore::spend chooses the stack by the emptiness of
\* info.delegated_puzzles. Empty: the puzzle is Singleton over NftState over
\* inner_spend.puzzle and the state layer's inner solution is
\* inner_spend.solution. Non-empty: the puzzle holds the delegation layer
\* and the inner solution is a DelegationSolution that reveals
\* inner_spend.puzzle with inner_spend.solution and the merkle proof of the
\* puzzle's hash, None exactly when that hash is no leaf of the tree. In
\* both cases the coin is self.coin and the singleton solution carries
\* self.proof and self.coin.amount.
C18_SpendStack ==
    Spent
        => /\ cs.coin = datastore.coin
           /\ cs.solution.lineage_proof = datastore.proof
           /\ cs.solution.amount = datastore.coin.amount
           /\ cs.puzzle_reveal.mod = "singleton"
           /\ cs.puzzle_reveal.launcher_id = datastore.info.launcher_id
           /\ ParentStateLayer.mod = "nft_state"
           /\ ParentStateLayer.metadata = datastore.info.metadata
           /\ IF datastore.info.delegated_puzzles = <<>>
              THEN /\ ParentInnerPuzzle = spent_with.puzzle
                   /\ cs.solution.inner_solution = spent_with.solution
              ELSE /\ ParentInnerPuzzle.mod = "delegation"
                   /\ ParentInnerPuzzle.owner_puzzle_hash = datastore.info.owner_puzzle_hash
                   /\ cs.solution.inner_solution.puzzle_reveal = spent_with.puzzle
                   /\ cs.solution.inner_solution.puzzle_solution = spent_with.solution
                   /\ cs.solution.inner_solution.merkle_proof.some <=> IsDelegatedSpend
                   /\ cs.solution.inner_solution.merkle_proof.some
                        => LET i == cs.solution.inner_solution.merkle_proof.index
                           IN LeafHash(datastore.info.delegated_puzzles[i])
                                = TreeHash(spent_with.puzzle)

\* the owner spends a store that has delegated puzzles: no merkle proof
C18_Witness ==
    /\ Spent
    /\ datastore.info.delegated_puzzles # <<>>
    /\ TreeHash(spent_with.puzzle) = datastore.info.owner_puzzle_hash
    /\ ~cs.solution.inner_solution.merkle_proof.some

(***************************************************************************)
(* C19                                                                     *)
(***************************************************************************)
\* the hash of the state layer that the fields of the spent store describe
StoreInnerPuzzleHash ==
    NftStateHash(MetadataHash(datastore.info.metadata), DL_METADATA_UPDATER_PUZZLE_HASH,
                 IF datastore.info.delegated_puzzles = <<>>
                 THEN datastore.info.owner_puzzle_hash
                 ELSE DelegationHash(datastore.info.launcher_id,
                                     datastore.info.owner_puzzle_hash,
                                     <<"merkle_root",
                                       [i \in 1..Len(datastore.info.delegated_puzzles) |->
                                            LeafHash(datastore.info.delegated_puzzles[i])]>>))

\* the proof of the successor is the lineage proof of the spent store
ProofIsChildLineage ==
    res.value.proof
        = [kind |-> "Lineage",
           parent_parent_coin_info |-> datastore.coin.parent_coin_info,
           parent_inner_puzzle_hash |-> StoreInnerPuzzleHash,
           parent_amount |-> datastore.coin.amount]

\* a launcher spend parsed to a store with the eve proof of the launcher coin
LauncherGivesEve ==
    (IsLauncherSpend /\ Parsed /\ res.ok /\ res.some)
        => res.value.proof
             = [kind |-> "Eve", parent_parent_coin_info |-> cs.coin.parent_coin_info,
                parent_amount |-> cs.coin.amount]

\* the inner puzzle of the spend is the one the store's fields describe: a
\* store without delegated puzzles is spent with its owner's puzzle
SpentAsDescribed ==
    \/ datastore.info.delegated_puzzles # <<>>
    \/ TreeHash(spent_with.puzzle) = datastore.info.owner_puzzle_hash

\* C19 as stated: lineage closure. For every DataStore P and spend built by
\* P.spend, the proof of the successor that from_spend returns is
\* Proof::Lineage equal to P.child_lineage_proof(); a launcher spend yields
\* Proof::Eve with the launcher coin's parent_coin_info and amount.
C19_LineageClosure_Stated ==
    /\ (Spent /\ Parsed /\ res.ok /\ res.some) => ProofIsChildLineage
    /\ LauncherGivesEve

\* C19, amended: lineage closure for every DataStore P and spend built by
\* P.spend whose inner puzzle is the one P.info describes (with no delegated
\* puzzles, a puzzle that hashes to P.info.owner_puzzle_hash): the proof of
\* the successor is Proof::Lineage equal to P.child_lineage_proof(); a
\* launcher spend yields Proof::Eve with the launcher coin's
\* parent_coin_info and amount.
C19_LineageClosure ==
    /\ (Spent /\ Parsed /\ res.ok /\ res.some /\ SpentAsDescribed) => ProofIsChildLineage
    /\ LauncherGivesEve

\* a store of amount 3 without delegated puzzles, spent by its owner
C19_Witness ==
    /\ Spent /\ Parsed /\ res.ok /\ res.some
    /\ datastore.info.delegated_puzzles = <<>>
    /\ datastore.coin.amount = 3
    /\ TreeHash(spent_with.puzzle) = datastore.info.owner_puzzle_hash
    /\ res.value.proof.kind = "Lineage"
    /\ res.value.proof.parent_amount = 3

(***************************************************************************)
(* C20                                                                     *)
(***************************************************************************)
\* cat_out is cat.spend(cat_with.lineage_proof, cat_with.inner_spend)
CatSpent == cat.present /\ cat_with.present /\ cat_out # NoStore

\* the p2 puzzle that the spend reveals: the CAT's own when it holds one
RevealedP2 ==
    IF cat.p2_puzzle.some THEN cat.p2_puzzle.value ELSE cat_with.inner_spend.puzzle

\* what the revealed p2 puzzle outputs for the inner solution
CatInnerOutput == RunPuzzle(RevealedP2, cat_with.inner_spend.solution)

\* the positions of the CreateCoin conditions of that output
CatCreated ==
    {i \in 1..Len(CatInnerOutput.out) :
        /\ CatInnerOutput.out[i].opcode = 51
        /\ IsBytes32(CatInnerOutput.out[i].puzzle_hash)}

\* parsing the spend again finds no child: the p2 puzzle ran and created no
\* coin
ReparseIsNone == CatInnerOutput.ok /\ CatCreated = {}

\* the child that parsing the returned coin spend again gives, whatever
\* amount `todo` stands for
ReparsedChild ==
    LET spent == cat_out.coin_spend
        output == RunPuzzle(spent.puzzle_reveal.inner_puzzle,
                            spent.solution.inner_puzzle_solution).out
        created == {i \in 1..Len(output) :
                       output[i].opcode = 51 /\ IsBytes32(output[i].puzzle_hash)}
        puzzle_hash == output[MinOf(created)].puzzle_hash
    IN [present |-> TRUE,
        coin |-> [parent_coin_info |-> <<"coin", spent.coin.parent_coin_info,
                                         spent.coin.puzzle_hash, spent.coin.amount>>,
                  puzzle_hash |-> <<"cat", spent.puzzle_reveal.asset_id, puzzle_hash>>,
                  amount |-> cat_out.child.coin.amount],
        asset_id |-> spent.puzzle_reveal.asset_id,
        p2_puzzle_hash |-> puzzle_hash,
        p2_puzzle |-> [some |-> FALSE]]

\* the coin spend is of the CAT's coin and names it, the child is the one
\* of the coin spend, and MissingChild stands for a parse that finds none
CatSpendFrame ==
    /\ (CatSpent /\ cat_out.ok)
        => /\ cat_out.coin_spend.coin = cat.coin
           /\ cat_out.coin_spend.solution.prev_coin_id
                = <<"coin", cat.coin.parent_coin_info, cat.coin.puzzle_hash, cat.coin.amount>>
           /\ cat_out.child = ReparsedChild
    /\ CatSpent => (cat_out = Err("MissingChild") <=> ReparseIsNone)

\* the fields of the CAT fit each other and the p2 puzzle revealed: the
\* coin's puzzle hash is that of a CAT of asset_id over p2_puzzle_hash, and
\* the revealed p2 puzzle hashes to p2_puzzle_hash
CatAsDescribed ==
    /\ cat.coin.puzzle_hash = <<"cat", cat.asset_id, cat.p2_puzzle_hash>>
    /\ TreeHash(RevealedP2) = cat.p2_puzzle_hash

\* C20 as stated: CAT construction. For every CAT and inner spend, the coin
\* spend that CAT::spend returns has coin = self.coin, a puzzle reveal whose
\* tree hash is self.coin.puzzle_hash and prev_coin_id = coin_id(self.coin);
\* the CAT returned with it is CAT::from_parent_spend of that coin spend,
\* and CAT::spend is Err(MissingChild) exactly when that parse is None.
C20_CatConstruction_Stated ==
    /\ CatSpendFrame
    /\ (CatSpent /\ cat_out.ok)
        => TreeHash(cat_out.coin_spend.puzzle_reveal) = cat.coin.puzzle_hash

\* C20, amended: CAT construction. For every CAT and inner spend, the coin
\* spend that CAT::spend returns has coin = self.coin and
\* prev_coin_id = coin_id(self.coin), the CAT returned with it is
\* CAT::from_parent_spend of that coin spend, and CAT::spend is
\* Err(MissingChild) exactly when that parse is None; the tree hash of the
\* puzzle reveal is self.coin.puzzle_hash when self.coin.puzzle_hash is the
\* CAT puzzle hash of asset_id over p2_puzzle_hash and the p2 puzzle
\* revealed (self.p2_puzzle, or inner_spend.puzzle without one) hashes to
\* p2_puzzle_hash.
C20_CatConstruction ==
    /\ CatSpendFrame
    /\ (CatSpent /\ cat_out.ok /\ CatAsDescribed)
        => TreeHash(cat_out.coin_spend.puzzle_reveal) = cat.coin.puzzle_hash

\* a CAT of amount 1000 without a p2 puzzle of its own, spent with its
\* owner's puzzle, which creates a coin
C20_Witness ==
    /\ CatSpent /\ cat_out.ok /\ CatAsDescribed
    /\ ~cat.p2_puzzle.some
    /\ cat.coin.amount = 1000
    /\ cat_out.child.p2_puzzle_hash = OwnerPuzzleHash
    /\ cat_out.coin_spend.coin = cat.coin

(***************************************************************************)
(* C21                                                                     *)
(***************************************************************************)
\* cat_res is CAT::from_parent_spend(cat_cs)
CatParsed == cat_cs.present /\ cat_res # NoStore

\* cat_cs reveals a CAT puzzle and carries a CAT solution
IsCatSpend ==
    /\ cat_cs.puzzle_reveal.mod = "cat"
    /\ "inner_puzzle_solution" \in DOMAIN cat_cs.solution

\* what the inner puzzle of the parent outputs
ParentCatOutput ==
    RunPuzzle(cat_cs.puzzle_reveal.inner_puzzle, cat_cs.solution.inner_puzzle_solution).out

\* the CreateCoin conditions of that output, by position
ParentCatCreated ==
    {i \in 1..Len(ParentCatOutput) :
        ParentCatOutput[i].opcode = 51 /\ IsBytes32(ParentCatOutput[i].puzzle_hash)}

\* C21: the child of CAT::from_parent_spend. When the spend is recognized
\* the child has coin.parent_coin_info = coin_id(spent coin), the asset id
\* of the parent and, as coin.amount, the amount of the CreateCoin that the
\* parent's inner puzzle emits, not the parent's amount; when the puzzle
\* reveal is no CAT layer the result is Ok(None).
C21_CatChildCoin ==
    CatParsed
        => /\ (cat_res.ok /\ cat_res.some)
                => /\ IsCatSpend
                   /\ cat_res.value.coin.parent_coin_info
                        = <<"coin", cat_cs.coin.parent_coin_info, cat_cs.coin.puzzle_hash,
                            cat_cs.coin.amount>>
                   /\ cat_res.value.asset_id = cat_cs.puzzle_reveal.asset_id
                   /\ cat_res.value.coin.amount
                        = ParentCatOutput[MinOf(ParentCatCreated)].amount
           /\ cat_cs.puzzle_reveal.mod # "cat"
                => (cat_res.ok /\ ~cat_res.some)

RECURSIVE NoLeadingZeros(_)
NoLeadingZeros(b) == IF b # <<>> /\ b[1] = 0 THEN NoLeadingZeros(Tail(b)) ELSE b

\* C23: the fee memo of an oracle. For every u64 fee the memo that
\* get_recreation_memos writes is the minimal signed big-endian encoding of
\* the fee: no bytes for 0, no leading 0 byte unless the next byte has its
\* high bit set, exactly one leading 0 when the top byte of the magnitude
\* is 128 or more (128 -> 00 80, 2^64 - 1 -> nine bytes), and read as a
\* signed integer it is the fee.
C23_FeeMemoMinimal ==
    fee_memo # NoStore
        => LET b == fee_memo.bytes
               magnitude == NoLeadingZeros(fee_be)
           IN /\ magnitude = <<>> <=> b = <<>>
              /\ (b # <<>> /\ b[1] = 0) => (Len(b) > 1 /\ b[2] >= 128)
              /\ (magnitude # <<>> /\ magnitude[1] >= 128)
                    => (b[1] = 0 /\ Tail(b) = magnitude)
              /\ (magnitude # <<>> /\ magnitude[1] < 128) => b = magnitude
              /\ b # <<>> => b[1] < 128
              /\ NoLeadingZeros(b) = magnitude

\* the largest u64: nine bytes
C23_Witness ==
    /\ fee_memo # NoStore
    /\ fee_be = [i \in 1..8 |-> 255]
    /\ Len(fee_memo.bytes) = 9
    /\ fee_memo.bytes[1] = 0

(***************************************************************************)
(* C24                                                                     *)
(***************************************************************************)
\* C24: no panic on data that comes from the input. For every memo list
\* (empty, of one memo, with memos of any length) build_datastore returns
\* Ok or Err and does not panic: its drain(0..1) calls are reached on
\* non-empty lists only. from_spend on any coin spend that decodes returns
\* Ok(Some), Ok(None) or Err and does not panic.
C24_NoPanic ==
    /\ rebuilt # NoStore => (rebuilt.ok \/ rebuilt.err # "panic")
    /\ res # NoStore => (res.ok \/ res.err # "panic")

\* a list of one memo: the first drain empties it, and no second drain runs
C24_Witness ==
    /\ memo_list.present
    /\ memo_list.list = <<dsargs.launcher_id>>
    /\ rebuilt # NoStore
    /\ rebuilt.ok

(***************************************************************************)
(* C25                                                                     *)
(***************************************************************************)
\* mint_eve_nft was the last mint called
EveMinted == nft_out.present /\ nft_out.call = "mint_eve_nft"

\* the spend of the launcher coin that the mint put into the context
MintLauncherSpend == ctx_spends[nft_out.at + 1]

\* C25: Launcher.mint_eve_nft returns launch conditions, the eve coin and
\* the Eve proof. The coin of the returned Nft is the eve coin that the
\* launcher spend creates for the inner puzzle hash of the NFT; its proof is
\* Proof::Eve with the parent_coin_info and the amount of the launcher coin;
\* its launcher id is the coin id of the launcher coin; and the returned
\* conditions include a puzzle announcement of the launcher coin id.
C25_MintEveNft ==
    EveMinted =>
        LET launcher_coin == nft_out.launcher.coin
            launcher_id == CoinId(launcher_coin)
            minted == nft_out.nft
            eve_puzzle_hash ==
                SingletonHash(launcher_id, NftInfo_inner_puzzle_hash(minted.info))
        IN /\ minted.coin = Coin(launcher_id, eve_puzzle_hash, launcher_coin.amount)
           /\ MintLauncherSpend.coin = launcher_coin
           /\ MintLauncherSpend.solution.singleton_puzzle_hash = minted.coin.puzzle_hash
           /\ MintLauncherSpend.solution.amount = minted.coin.amount
           /\ minted.proof = EveProof(launcher_coin.parent_coin_info, launcher_coin.amount)
           /\ minted.info.launcher_id = launcher_id
           /\ minted.info.p2_puzzle_hash = nft_out.p2_puzzle_hash
           /\ \E i \in DOMAIN nft_out.conditions :
                nft_out.conditions[i] = CreatePuzzleAnnouncement(launcher_id)

\* an eve NFT minted from a launcher coin of amount 3, into a context that
\* held a spend already
C25_Witness ==
    /\ EveMinted
    /\ nft_out.launcher.coin.amount = 3
    /\ nft_out.at > 0
    /\ nft_out.nft.proof.kind = "Eve"

(***************************************************************************)
(* C26                                                                     *)
(***************************************************************************)
\* a step of mint_nft
MintNftStep == nft_out' # nft_out /\ nft_out'.present /\ nft_out'.call = "mint_nft"

\* the last coin spend of the context
LastSpend == ctx_spends[Len(ctx_spends)]

\* a coin spend is the spend of the eve NFT of the last mint
IsEveSpendOfMint(coin_spend) ==
    /\ coin_spend.puzzle_reveal.mod = "nft"
    /\ coin_spend.coin.parent_coin_info = CoinId(nft_out.launcher.coin)
    /\ coin_spend.coin.amount = nft_out.launcher.coin.amount
    /\ coin_spend.solution.lineage_proof.kind = "Eve"

\* a coin spend is the spend of the launcher coin of the last mint
IsLauncherSpendOfMint(coin_spend) ==
    /\ coin_spend.coin = nft_out.launcher.coin
    /\ coin_spend.puzzle_reveal = OpaquePuzzle("singleton_launcher")

IsDidAssertion(c) == "kind" \in DOMAIN c /\ c.kind = "assert_puzzle_announcement"

\* what the last mint_nft returned: the DID assertion is among the
\* conditions iff the owner is not the default, and the Nft is the child of
\* the eve NFT with the p2 puzzle hash, the owner and the metadata of the mint
MintReturned ==
    LET mint == nft_out.mint
        child == nft_out.nft
        eve_coin == LastSpend.coin
    IN /\ (\E i \in DOMAIN nft_out.conditions : IsDidAssertion(nft_out.conditions[i]))
            <=> mint.owner # TransferNftDefault
       /\ \A i \in DOMAIN nft_out.conditions :
            IsDidAssertion(nft_out.conditions[i]) =>
                nft_out.conditions[i].announcement_id =
                    did_puzzle_assertion(eve_coin.puzzle_hash, mint.owner)
       /\ child.coin.parent_coin_info = CoinId(eve_coin)
       /\ child.coin.amount = eve_coin.amount
       /\ child.proof = LineageProof(eve_coin.parent_coin_info,
                                     NftInfo_inner_puzzle_hash(LastSpend.puzzle_reveal.info),
                                     eve_coin.amount)
       /\ child.info.launcher_id = eve_coin.parent_coin_info
       /\ child.info.p2_puzzle_hash = mint.p2_puzzle_hash
       /\ child.info.current_owner = mint.owner.did_id
       /\ child.info.metadata = mint.metadata
       /\ child.coin.puzzle_hash =
            SingletonHash(child.info.launcher_id, NftInfo_inner_puzzle_hash(child.info))

\* C26 as stated: Launcher.mint_nft adds exactly one coin spend to the
\* spend context per call, the spend of the eve NFT, appended after the
\* spends already there; the returned conditions contain a DID
\* puzzle-announcement assertion iff mint.owner differs from the default
\* TransferNft, and the returned Nft is the child of the eve NFT with p2
\* puzzle hash mint.p2_puzzle_hash, owner mint.owner.did_id and the original
\* metadata.
C26_OneSpendPerMint ==
    [][MintNftStep =>
        /\ ctx_spends' = Append(ctx_spends, LastSpend')
        /\ IsEveSpendOfMint(LastSpend)'
        /\ MintReturned']_vars

\* C26, amended: Launcher.mint_nft adds exactly two coin spends to the
\* spend context per call, the spend of the launcher coin and after it the
\* spend of the eve NFT, appended after the spends already there (so N
\* mints leave N eve spends in call order, each behind the spend of its
\* launcher); the returned conditions and the returned Nft are as stated.
C26_MintNft ==
    [][MintNftStep =>
        /\ Len(ctx_spends') = Len(ctx_spends) + 2
        /\ SubSeq(ctx_spends', 1, Len(ctx_spends)) = ctx_spends
        /\ IsLauncherSpendOfMint(ctx_spends[Len(ctx_spends) - 1])'
        /\ IsEveSpendOfMint(LastSpend)'
        /\ MintReturned']_vars

\* the second of two mints, for a DID: the context holds two eve spends
C26_Witness ==
    /\ nft_out.present
    /\ nft_out.call = "mint_nft"
    /\ nft_out.mint.owner # TransferNftDefault
    /\ nft_out.at = 2
    /\ Len(ctx_spends) = 4
    /\ ctx_spends[2].puzzle_reveal.mod = "nft"
    /\ ctx_spends[4].puzzle_reveal.mod = "nft"
    /\ ctx_spends[2] # ctx_spends[4]

(***************************************************************************)
(* C27                                                                     *)
(***************************************************************************)
\* the delegated puzzle lists an owner asks for
RequestedLists == {<<>>, <<AdminDelegatedPuzzle>>, AllDelegated}

\* the owner spends the store, and c is the one odd-amount CreateCoin of
\* the owner's conditions
OwnerSpendsWith(c) ==
    /\ Spent
    /\ TreeHash(spent_with.puzzle) = datastore.info.owner_puzzle_hash
    /\ OwnOutput.ok
    /\ \E i \in OddCreateCoins(OwnOutput.out) :
        /\ OddCreateCoins(OwnOutput.out) = {i}
        /\ OwnOutput.out[i] = c

\* the condition is as described: amount 1, the puzzle hash of the new
\* inner puzzle, and the memos
ConditionAsDescribed(c, launcher_id, o, d, h) ==
    /\ c.opcode = 51
    /\ c.amount = 1
    /\ c.puzzle_hash = IF d = <<>> THEN o ELSE DelegationHash(launcher_id, o, MerkleRoot(d))
    /\ c.memos = IF h THEN get_recreation_memos(launcher_id, o, d) ELSE <<launcher_id>>

\* from_spend with the list of the parent gave the store asked for
GivesRequested(o, d) ==
    /\ res.ok /\ res.some
    /\ res.value.info.owner_puzzle_hash = o
    /\ res.value.info.delegated_puzzles = d

\* C27 as stated: owner_create_coin_condition returns a CreateCoin with
\* amount 1; its puzzle hash is new_inner_puzzle_hash when
\* new_delegated_puzzles is empty, else the delegation layer hash over
\* (launcher_id, new_inner_puzzle_hash, Merkle root); its memos are
\* get_recreation_memos(..) when hint_delegated_puzzles is true and
\* [launcher_id] otherwise. Spending a datastore with it and parsing with
\* from_spend gives the requested owner and delegated set whenever hints are
\* on or the delegated set is unchanged.
C27_OwnerCreateCoin_Stated ==
    \A o \in OwnerPuzzleHashes, d \in RequestedLists, h \in BOOLEAN :
        LET c == owner_create_coin_condition(datastore.info.launcher_id, o, d, h) IN
        OwnerSpendsWith(c) =>
            /\ ConditionAsDescribed(c, datastore.info.launcher_id, o, d, h)
            /\ (Parsed /\ pdp = datastore.info.delegated_puzzles
                    /\ (h \/ d = datastore.info.delegated_puzzles))
                => GivesRequested(o, d)

\* C27, amended: the condition is as stated. Spending a datastore with it
\* and parsing with from_spend gives the requested owner and delegated set
\* whenever hints are on, or neither the delegated set nor the owner
\* changes.
C27_OwnerCreateCoin ==
    \A o \in OwnerPuzzleHashes, d \in RequestedLists, h \in BOOLEAN :
        LET c == owner_create_coin_condition(datastore.info.launcher_id, o, d, h) IN
        OwnerSpendsWith(c) =>
            /\ ConditionAsDescribed(c, datastore.info.launcher_id, o, d, h)
            /\ (Parsed /\ pdp = datastore.info.delegated_puzzles
                    /\ \/ h
                       \/ /\ d = datastore.info.delegated_puzzles
                          /\ o = datastore.info.owner_puzzle_hash)
                => GivesRequested(o, d)

\* the owner of a store with all delegated puzzles hands it to the second
\* owner with the admin alone, with hints, and the parse gives that store
C27_Witness ==
    /\ OwnerSpendsWith(owner_create_coin_condition(datastore.info.launcher_id,
                           Owner2PuzzleHash, <<AdminDelegatedPuzzle>>, TRUE))
    /\ datastore.info.owner_puzzle_hash = OwnerPuzzleHash
    /\ datastore.info.delegated_puzzles = AllDelegated
    /\ Parsed
    /\ pdp = AllDelegated
    /\ GivesRequested(Owner2PuzzleHash, <<AdminDelegatedPuzzle>>)

(***************************************************************************)
(* C28                                                                     *)
(***************************************************************************)
\* C28: the lineage proof that CAT.spend returns for the child describes
\* the coin spent: parent_parent_coin_info = self.coin.parent_coin_info,
\* parent_inner_puzzle_hash = the hash of the CAT's inner (p2) puzzle, and
\* parent_amount = self.coin.amount, for every amount of the coin and not
\* for amount 1 alone.
C28_SpendLineageProof ==
    (CatSpent /\ cat_out.ok)
        => /\ cat_out.proof.kind = "Lineage"
           /\ cat_out.proof.parent_parent_coin_info = cat.coin.parent_coin_info
           /\ cat_out.proof.parent_inner_puzzle_hash = cat.p2_puzzle_hash
           /\ cat_out.proof.parent_amount = cat.coin.amount

(***************************************************************************)
(* C29                                                                     *)
(***************************************************************************)
\* the hash of the puzzle rebuilt from the info of the store returned
RebuiltPuzzleHash ==
    LET returned == res.value.info IN
    SingletonHash(returned.launcher_id,
        NftStateHash(MetadataHash(returned.metadata), DL_METADATA_UPDATER_PUZZLE_HASH,
                     IF returned.delegated_puzzles = <<>>
                     THEN returned.owner_puzzle_hash
                     ELSE DelegationHash(returned.launcher_id, returned.owner_puzzle_hash,
                                         MerkleRoot(returned.delegated_puzzles))))

\* the successor's info describes the successor's coin
InfoMatchesCoin == res.value.coin.puzzle_hash = RebuiltPuzzleHash

\* the parent has no delegation layer and the successor's owner is the
\* puzzle hash of the recreating CreateCoin
VanillaOwnerIsPaid == res.value.info.owner_puzzle_hash = Recreating.puzzle_hash

\* C29: the successor's info matches the successor's coin. For every
\* DataStore that from_spend returns on a spend of a store, the puzzle
\* rebuilt from the returned info (the owner puzzle hash alone when there
\* are no delegated puzzles, else the delegation layer; under the state
\* layer with the returned metadata; under the singleton) hashes to the
\* returned coin's puzzle hash. In particular, when the parent has no
\* delegation layer and its owner puzzle emits an odd CreateCoin(ph, ..)
\* with at most one memo, the returned owner_puzzle_hash is ph, also when ph
\* is not the parent's owner puzzle hash.
C29_InfoMatchesCoin ==
    /\ Succeeded => InfoMatchesCoin
    /\ (Succeeded /\ VanillaCase) => VanillaOwnerIsPaid

(***************************************************************************)
(* C30                                                                     *)
(***************************************************************************)
\* the output under the state layer has more than one odd-amount CreateCoin
SeveralOdd == Recreates /\ Cardinality(OddCreateCoins(InnerOutput.out)) > 1

\* the revealed delegated puzzle's own output has more than one
SeveralRevealedOdd ==
    DelegationCase /\ Cardinality(OddCreateCoins(RevealedOutput.out)) > 1

\* the last NewMetadata condition of the output under the state layer
LastCarried ==
    CarriedMetadata(InnerOutput.out[MaxOf(NewMetadatas(InnerOutput.out))])

\* C30: selection among several odd-amount CreateCoins. When the output of
\* the state layer's inner puzzle has more than one CreateCoin of odd
\* amount, from_spend takes the child's puzzle hash, amount and memos from
\* one and the same condition, the last in output order; the classification
\* in the delegation branch (stay or owner exit) uses the first odd-amount
\* CreateCoin of the revealed delegated puzzle's own output; and the last
\* NewMetadata condition in output order is the one applied.
C30_Selection ==
    /\ (Succeeded /\ SeveralOdd)
        => /\ res.value.coin.amount = Recreating.amount
           /\ res.value.coin.puzzle_hash =
                SingletonHash(cs.puzzle_reveal.launcher_id,
                    NftStateHash(MetadataHash(res.value.info.metadata),
                                 ParentStateLayer.metadata_updater_puzzle_hash,
                                 Recreating.puzzle_hash))
           /\ res.path = "memos" <=> Len(Recreating.memos) > 1
    /\ (Parsed /\ SeveralOdd /\ ~res.ok /\ res.err \in {"InvalidMemo", "MissingMemo"})
        => Len(Recreating.memos) > 1
    /\ (Succeeded /\ SeveralRevealedOdd)
        => /\ res.path = "recreated" <=> RevealedOdd.puzzle_hash = ParentDelegationHash
           /\ res.path = "exit" <=> RevealedOdd.puzzle_hash # ParentDelegationHash
           /\ res.path = "exit" => res.value.info.owner_puzzle_hash = RevealedOdd.puzzle_hash
    /\ (Succeeded /\ Cardinality(NewMetadatas(InnerOutput.out)) > 1)
        => res.value.info.metadata = LastCarried

\* the owner's conditions first pay to the delegation layer and then to the
\* second owner: the coin is that of the second, the store stays as it was
C30_Witness ==
    /\ Succeeded /\ Spent /\ SeveralRevealedOdd
    /\ RevealedOdd.puzzle_hash = ParentDelegationHash
    /\ Recreating.puzzle_hash = Owner2PuzzleHash
    /\ Recreating.amount = 3
    /\ res.value.coin.amount = 3
    /\ res.path = "recreated"
====
